---- MODULE Spec2Model ----
(***************************************************************************)
(* A model of the ingestion-and-analytics engine of woos-nwn-parser:       *)
(* the defense-threshold tracker and the attack grammar of LogParser       *)
(* (app/models.py, app/parser.py), the DPS and immunity parts of           *)
(* DataStore (app/storage.py), the rotating-file tail reader               *)
(* (app/monitor.py) and the background bulk-ingestion service              *)
(* (app/services/past_logs_parser.py).                                     *)
(*                                                                         *)
(* Each object of the program is one variable holding a record of the      *)
(* object's fields.  Each component has its own specification (SpecAC,     *)
(* SpecDps, ...) over the same variables; a specification leaves the       *)
(* objects it does not drive in their constructed state.                   *)
(***************************************************************************)
EXTENDS Integers, Sequences, FiniteSets, TLC

VARIABLES
    parser,       \* LogParser: parse_immunity, target_ac, target_saves, target_attack_bonus
    pruned,       \* history: the targets one of whose retained hits a miss has discarded
    store,        \* DataStore: events, attacks, dps_data, last_damage_timestamp, immunity_data
    seen,         \* history: the <<character, timestamp>> pairs update_dps_data was called with
    scenario,     \* history: how far the calls so far follow DpsScenario (Off once they differ)
    ignored,      \* history: the <<target, damage type>> records that were given a sample with
                  \* more immunity than stored and no more damage than stored
    dir,          \* the log directory: whether it exists and, per candidate file, whether
                  \* the file exists, its st_mtime and its lines
    game,         \* the game client that writes the logs: its clock and how much it wrote
    monitor,      \* LogDirectoryMonitor: current_log_file, last_position, last_mtime
    data_queue,   \* the queue read_new_lines puts its items on; the poll loop has
                  \* drained it before each poll, so it holds the items of the last poll
    queue_processor, \* QueueProcessor: damage_buffer, pending_immunity_queue,
                  \* parsed_event_count, and the correlations it has recorded
    tail,         \* history of the monitor since start_monitoring (see InitMonitorVars)
    service,      \* PastLogsParserService: is_parsing, parse_thread, past_logs_included,
                  \* session_only_state, monitoring_start_position
    workers,      \* the threads start_parsing has started, in order: each one's position
                  \* in _parse_logs_thread, its locals, and the callbacks it has made
    ui            \* the interactive side: its position in start_parsing / stop_parsing

vars == <<parser, pruned, store, seen, scenario, ignored,
          dir, game, monitor, data_queue, queue_processor, tail, service,
          workers, ui>>
parserVars == <<parser, pruned>>
storeVars == <<store, seen, scenario, ignored>>
monitorVars == <<dir, game, monitor, data_queue, queue_processor, tail>>
serviceVars == <<service, workers, ui>>

(***************************************************************************)
(* Optional[int]: None is the empty sequence, a value v is <<v>>.          *)
(***************************************************************************)
None == <<>>
Some(v) == <<v>>
Val(o) == o[1]

RECURSIVE SeqMin(_)
SeqMin(s) ==
    IF Len(s) = 1 THEN s[1]
    ELSE LET m == SeqMin(Tail(s)) IN IF s[1] <= m THEN s[1] ELSE m

(* Python's `sub in s` on strings. *)
Contains(s, sub) ==
    \E i \in 1..(Len(s) - Len(sub) + 1) : SubSeq(s, i, i + Len(sub) - 1) = sub

(***************************************************************************)
(* Bounds of the model.                                                    *)
(***************************************************************************)
MaxHits == 2          \* longest retained-hits list a tracker may grow to
MaxBonusCount == 2    \* most attack lines with a roll triple per attacker
MaxDamageHundreds == 6 \* most damage, in hundreds, update_dps_data is given in all
MaxSamples == 3       \* most samples one immunity record is given
MaxEvents == 3        \* most events around the monitor: lines the game appends,
                      \* files it clears, polls that meet an I/O failure
MaxStarts == 2        \* most worker threads start_parsing starts
MaxCalls == 3         \* most DataStore method calls two threads make between them
MaxLines == 4         \* most lines the game writes while the pipeline is watched
MaxDamageBefore == 12 \* largest damage before immunity the solver is asked about
MaxEstimateEvents == 4 \* most lines, samples and resets of a session of estimates
MaxFileLines == 3     \* most lines of a file parse_and_import_file is called on
MaxImports == 2       \* most parse_and_import_file calls on that file
MaxDpsCalls == 3      \* most update_dps_data calls whose arguments are kept
MaxBatch == 3         \* most items put on the queue that process_queue drains
MaxStoreOps == 5      \* most DataStore operations called in a row
MaxBonusCalls == 5    \* most record_bonus calls on one tracker
MaxRaceCalls == 3     \* most parse_line calls of the two threads together

(***************************************************************************)
(* EnemyAC (app/models.py)                                                 *)
(***************************************************************************)
EnemyAC(name) == [name |-> name, max_miss |-> None, hits |-> <<>>]

min_hit(ac) == IF ac.hits = <<>> THEN None ELSE Some(SeqMin(ac.hits))

(* A record_hit that forgets the max_miss test. *)
record_hit_unchecked(ac, total, was_nat20) ==
    IF ~was_nat20 THEN [ac EXCEPT !.hits = Append(@, total)] ELSE ac

record_hit(ac, total, was_nat20) ==
    IF ~was_nat20
    THEN IF ac.max_miss = None \/ total > Val(ac.max_miss)
         THEN [ac EXCEPT !.hits = Append(@, total)]
         ELSE ac
    ELSE ac

(* A record_miss that raises the maximum without pruning the hits. *)
record_miss_noprune(ac, total, was_nat1) ==
    IF ~was_nat1 /\ (ac.max_miss = None \/ total > Val(ac.max_miss))
    THEN [ac EXCEPT !.max_miss = Some(total)]
    ELSE ac

record_miss(ac, total, was_nat1) ==
    IF ~was_nat1
    THEN IF ac.max_miss = None \/ total > Val(ac.max_miss)
         THEN [ac EXCEPT !.max_miss = Some(total),
                         !.hits = SelectSeq(@, LAMBDA h : h > total)]
         ELSE ac
    ELSE ac

(* The character U+2264 of the hits-only estimate, which a string of this  *)
(* module cannot hold (models.py 120).                                     *)
at_most_sign == "<="

(* An estimate that never collapses a window of one value to that value. *)
get_ac_estimate_window(ac) ==
    LET lowest == min_hit(ac)
    IN IF lowest # None /\ ac.max_miss # None
       THEN IF Val(ac.max_miss) < Val(lowest)
            THEN ToString(Val(ac.max_miss) + 1) \o "-" \o ToString(Val(lowest))
            ELSE "~" \o ToString(Val(lowest))
       ELSE IF lowest # None THEN at_most_sign \o ToString(Val(lowest))
       ELSE IF ac.max_miss # None THEN ">" \o ToString(Val(ac.max_miss))
       ELSE "-"

(* models.py 103-123 *)
get_ac_estimate(ac) ==
    LET lowest == min_hit(ac)
    IN IF lowest # None /\ ac.max_miss # None
       THEN IF Val(ac.max_miss) + 1 = Val(lowest)
            THEN ToString(Val(lowest))
            ELSE IF Val(ac.max_miss) < Val(lowest)
            THEN ToString(Val(ac.max_miss) + 1) \o "-" \o ToString(Val(lowest))
            ELSE "~" \o ToString(Val(lowest))
       ELSE IF lowest # None THEN at_most_sign \o ToString(Val(lowest))
       ELSE IF ac.max_miss # None THEN ">" \o ToString(Val(ac.max_miss))
       ELSE "-"

(***************************************************************************)
(* TargetAttackBonus (app/models.py).  bonus_counts is the frequency       *)
(* table, a function from the bonuses seen to their counts.                *)
(***************************************************************************)
EmptyCounts == [b \in {} |-> 0]

TargetAttackBonus(name) == [name |-> name, max_bonus |-> None, bonus_counts |-> EmptyCounts]

(* max(items, key=(count, bonus)): the highest count, ties to the higher bonus *)
MostCommonBonus(counts) ==
    CHOOSE b \in DOMAIN counts :
        \A c \in DOMAIN counts :
            \/ counts[c] < counts[b]
            \/ (counts[c] = counts[b] /\ c <= b)

(* A record_bonus that keeps the highest bonus seen. *)
record_bonus_maximum(ab, bonus) ==
    LET old == IF bonus \in DOMAIN ab.bonus_counts THEN ab.bonus_counts[bonus] ELSE 0
        counts == [b \in DOMAIN ab.bonus_counts \cup {bonus} |->
                      IF b = bonus THEN old + 1 ELSE ab.bonus_counts[b]]
    IN [ab EXCEPT !.bonus_counts = counts, !.max_bonus = Some(CHOOSE b \in DOMAIN counts :
                                             \A c \in DOMAIN counts : c <= b)]

(* models.py 137-149 *)
record_bonus(ab, bonus) ==
    LET old == IF bonus \in DOMAIN ab.bonus_counts THEN ab.bonus_counts[bonus] ELSE 0
        counts == [b \in DOMAIN ab.bonus_counts \cup {bonus} |->
                      IF b = bonus THEN old + 1 ELSE ab.bonus_counts[b]]
    IN [ab EXCEPT !.bonus_counts = counts, !.max_bonus = Some(MostCommonBonus(counts))]

(***************************************************************************)
(* LogParser (app/parser.py).                                              *)
(*                                                                         *)
(* A log line is modelled by what the grammars capture from it.  An attack *)
(* line "<attacker> attacks <target> : *<outcome>* : (<roll> + <bonus> =   *)
(* <total>)" is the record of the named groups of the attack_with_threat   *)
(* pattern, which is tried first and matches every such line; the roll     *)
(* triple is optional in the pattern, so roll, bonus and total are         *)
(* Optional[int].  A line no grammar matches has kind "other".             *)
(* The timestamp of a line is modelled with the damage grammar; it does    *)
(* not reach the trackers.                                                 *)
(***************************************************************************)
Attackers == {"Woo"}
Targets == {"Goblin", "Orc"}
Outcomes == {"hit", "critical hit", "miss", "parried", "resisted",
             "attacker miss chance: 50%"}
Rolls == {1, 10, 20}
Bonuses == {5}

AttackLine(a, t, o, r, b) ==
    [kind |-> "attack", attacker |-> a, target |-> t, outcome |-> o,
     roll |-> Some(r), bonus |-> Some(b), total |-> Some(r + b)]

AttackLineNoRoll(a, t, o) ==
    [kind |-> "attack", attacker |-> a, target |-> t, outcome |-> o,
     roll |-> None, bonus |-> None, total |-> None]

OtherLine == [kind |-> "other"]

(* An empty or whitespace-only line *)
BlankLine == [kind |-> "blank"]

(* "[.. hh:mm:ss] attacker damages target: total (n Type n Type)": the     *)
(* line the damage_dealt pattern matches (parser.py 32-34); timestamp is   *)
(* the bracketed time of the line, a whole number of seconds.              *)
DamageLine(a, t, total, damage_types, timestamp) ==
    [kind |-> "damage", attacker |-> a, target |-> t, total_damage |-> total,
     damage_types |-> damage_types, timestamp |-> timestamp]

(* "[.. hh:mm:ss] target : Damage Immunity absorbs n point(s) of Type"     *)
(* (parser.py 36-38)                                                       *)
ImmunityLine(t, points, damage_type, timestamp) ==
    [kind |-> "immunity", target |-> t, immunity_points |-> points,
     damage_type |-> damage_type, timestamp |-> timestamp]

(* models.py 28-34 *)
EnemySaves(name) == [name |-> name, fortitude |-> None, reflex |-> None, will |-> None]

(* An update_save that keeps the latest bonus. *)
update_save_latest(sv, save_type, bonus) ==
    IF save_type = "fort" THEN [sv EXCEPT !.fortitude = Some(bonus)]
    ELSE IF save_type = "ref" THEN [sv EXCEPT !.reflex = Some(bonus)]
    ELSE IF save_type = "will" THEN [sv EXCEPT !.will = Some(bonus)]
    ELSE sv

(* models.py 36-51 *)
update_save(sv, save_type, bonus) ==
    IF save_type = "fort"
    THEN IF sv.fortitude = None \/ bonus > Val(sv.fortitude)
         THEN [sv EXCEPT !.fortitude = Some(bonus)] ELSE sv
    ELSE IF save_type = "ref"
    THEN IF sv.reflex = None \/ bonus > Val(sv.reflex)
         THEN [sv EXCEPT !.reflex = Some(bonus)] ELSE sv
    ELSE IF save_type = "will"
    THEN IF sv.will = None \/ bonus > Val(sv.will)
         THEN [sv EXCEPT !.will = Some(bonus)] ELSE sv
    ELSE sv

(* "target : Fortitude Save : *success* : (roll + bonus = total vs. DC: n)": *)
(* the line the save pattern matches (parser.py 72-78); save_type is the   *)
(* matched word in lower case.                                             *)
SaveLine(t, save_type, bonus) ==
    [kind |-> "save", target |-> t, save_type |-> save_type, bonus |-> bonus]

LogParser == [parse_immunity |-> FALSE,
              target_saves |-> [t \in {} |-> EnemySaves(t)],
              target_ac |-> [t \in {} |-> EnemyAC(t)],
              target_attack_bonus |-> [a \in {} |-> TargetAttackBonus(a)]]

(* parser.py 251-253: the outcome classes, by substring *)
is_hit(outcome) ==
    Contains(outcome, "hit") /\ ~Contains(outcome, "miss")
        /\ ~Contains(outcome, "attacker miss chance")
is_crit(outcome) == Contains(outcome, "critical")
is_miss(outcome) ==
    Contains(outcome, "miss") \/ Contains(outcome, "parried")
        \/ Contains(outcome, "resisted") \/ Contains(outcome, "attacker miss chance")

NoEvent == [type |-> "none"]

(* dict get-or-create *)
GetOrCreate(reg, key, fresh) ==
    IF key \in DOMAIN reg THEN reg
    ELSE [k \in DOMAIN reg \cup {key} |-> IF k = key THEN fresh ELSE reg[k]]

(* parser.py 241-300: an attack match.  Returns the parser afterwards and  *)
(* the parsed dict (NoEvent for None).                                      *)
parse_attack(p, line) ==
    IF line.roll # None /\ line.total # None
    THEN LET roll == Val(line.roll)
             total == Val(line.total)
             was_nat1 == (roll = 1)
             target == line.target
             attacker == line.attacker
             ac0 == GetOrCreate(p.target_ac, target, EnemyAC(target))
             ac1 == IF is_hit(line.outcome)
                    THEN [ac0 EXCEPT ![target] = record_hit(@, total, FALSE)]
                    ELSE IF is_miss(line.outcome)
                    THEN [ac0 EXCEPT ![target] = record_miss(@, total, was_nat1)]
                    ELSE ac0
             ab0 == GetOrCreate(p.target_attack_bonus, attacker, TargetAttackBonus(attacker))
             ab1 == IF line.bonus # None
                    THEN [ab0 EXCEPT ![attacker] = record_bonus(@, Val(line.bonus))]
                    ELSE p.target_attack_bonus
             p1 == [p EXCEPT !.target_ac = ac1, !.target_attack_bonus = ab1]
         IN  IF is_hit(line.outcome)
             THEN [parser |-> p1,
                   result |-> [type |-> IF is_crit(line.outcome)
                                        THEN "attack_hit_critical" ELSE "attack_hit",
                               attacker |-> attacker, target |-> target,
                               roll |-> roll, bonus |-> line.bonus, total |-> total]]
             ELSE IF is_miss(line.outcome)
             THEN [parser |-> p1,
                   result |-> [type |-> "attack_miss",
                               attacker |-> attacker, target |-> target,
                               roll |-> roll, bonus |-> line.bonus, total |-> total,
                               was_nat1 |-> was_nat1]]
             ELSE [parser |-> p1, result |-> NoEvent]
    ELSE [parser |-> p, result |-> NoEvent]

(* parser.py 262-270: the write to target_ac of an attack match *)
parse_attack_target_ac(p, line) ==
    IF line.kind = "attack" /\ line.roll # None /\ line.total # None
    THEN LET ac0 == GetOrCreate(p.target_ac, line.target, EnemyAC(line.target))
         IN [p EXCEPT !.target_ac =
               IF is_hit(line.outcome)
               THEN [ac0 EXCEPT ![line.target] = record_hit(@, Val(line.total), FALSE)]
               ELSE IF is_miss(line.outcome)
               THEN [ac0 EXCEPT ![line.target] =
                        record_miss(@, Val(line.total), Val(line.roll) = 1)]
               ELSE ac0]
    ELSE p

(* parser.py 272-277: the write to target_attack_bonus of an attack match *)
parse_attack_bonus(p, line) ==
    IF line.kind = "attack" /\ line.roll # None /\ line.total # None /\ line.bonus # None
    THEN LET ab0 == GetOrCreate(p.target_attack_bonus, line.attacker,
                                TargetAttackBonus(line.attacker))
         IN [p EXCEPT !.target_attack_bonus =
               [ab0 EXCEPT ![line.attacker] = record_bonus(@, Val(line.bonus))]]
    ELSE p

(* parser.py 168-194: a damage line.  The context the branch keeps on the  *)
(* parser (current_target, damage_type_queue, pending_resists) is read by  *)
(* no consumer of the events and is left out.                              *)
parse_damage(p, line) ==
    [parser |-> p,
     result |-> [type |-> "damage_dealt", attacker |-> line.attacker,
                 target |-> line.target, total_damage |-> line.total_damage,
                 damage_types |-> line.damage_types, timestamp |-> line.timestamp]]

(* parser.py 196-226: an immunity line is matched only by a parser built   *)
(* with parse_immunity=True                                                *)
parse_damage_immunity(p, line) ==
    IF p.parse_immunity
    THEN [parser |-> p,
          result |-> [type |-> "immunity", target |-> line.target,
                      damage_type |-> line.damage_type,
                      immunity_points |-> line.immunity_points,
                      timestamp |-> line.timestamp]]
    ELSE [parser |-> p, result |-> NoEvent]

(* parser.py 302-332: a save line *)
parse_save(p, line) ==
    LET save_key == IF line.save_type \in {"fort", "fortitude"} THEN "fort"
                    ELSE IF line.save_type = "reflex" THEN "ref"
                    ELSE "will"
        saves0 == GetOrCreate(p.target_saves, line.target, EnemySaves(line.target))
    IN [parser |-> [p EXCEPT !.target_saves =
                      [saves0 EXCEPT ![line.target] = update_save(@, save_key, line.bonus)]],
        result |-> [type |-> "save", target |-> line.target, save_type |-> save_key,
                    bonus |-> line.bonus]]

(* parser.py 150-334 *)
parse_line(p, line) ==
    IF line.kind = "blank" THEN [parser |-> p, result |-> NoEvent]     \* 159-160
    ELSE IF line.kind = "damage" THEN parse_damage(p, line)
    ELSE IF line.kind = "immunity" THEN parse_damage_immunity(p, line)
    ELSE IF line.kind = "attack" THEN parse_attack(p, line)
    ELSE IF line.kind = "save" THEN parse_save(p, line)
    ELSE [parser |-> p, result |-> NoEvent]

(***************************************************************************)
(* The text of a line.  The monitor reads bytes, so a line has a length,   *)
(* and a read that starts inside a line yields the rest of that line.      *)
(* An attack line is written "<attacker> attacks <target> : *<outcome>*"   *)
(* followed, when it has a roll, by " : (<roll> + <bonus> = <total>)";     *)
(* every line ends with a newline.                                         *)
(***************************************************************************)
RECURSIVE DecimalLen(_)
DecimalLen(n) == IF n < 10 THEN 1 ELSE 1 + DecimalLen(n \div 10)

OtherText == "Woo casts Bless"

LineBytes(line) ==
    IF line.kind = "attack"
    THEN Len(line.attacker) + Len(" attacks ") + Len(line.target)
           + Len(" : *") + Len(line.outcome) + Len("*")
           + (IF line.roll = None THEN 0
              ELSE Len(" : (") + DecimalLen(Val(line.roll)) + Len(" + ")
                     + DecimalLen(Val(line.bonus)) + Len(" = ")
                     + DecimalLen(Val(line.total)) + Len(")"))
           + Len("\n")
    ELSE Len(OtherText) + Len("\n")

(* What the grammars capture from the text of line without its first skip  *)
(* bytes.  The attack patterns (parser.py 61-70) are searched, not         *)
(* anchored, and the attacker group is lazy: the rest of an attack line    *)
(* still matches while a byte of the attacker's name is left before        *)
(* " attacks", with what is left of the name as the attacker; cut further, *)
(* no pattern matches.                                                     *)
Suffix(line, skip) ==
    IF skip = 0 THEN line
    ELSE IF line.kind = "attack" /\ skip < Len(line.attacker)
    THEN [line EXCEPT !.attacker = SubSeq(@, skip + 1, Len(@))]
    ELSE OtherLine

(***************************************************************************)
(* The log directory and LogDirectoryMonitor (app/monitor.py).             *)
(*                                                                         *)
(* The candidate files are nwclientLog<n>.txt; a file is named by its n.   *)
(* The pattern admits n in 1..4; the model has the first two.  An offset   *)
(* and a size are byte counts.  A poll is one step: the game does not      *)
(* write while read_new_lines runs.                                        *)
(***************************************************************************)
LogFiles == {1, 2}

Absent == [exists |-> FALSE, st_mtime |-> 0, content |-> <<>>]
LogFile(mtime, content) == [exists |-> TRUE, st_mtime |-> mtime, content |-> content]

NoDirectory == [exists |-> FALSE, files |-> [f \in LogFiles |-> Absent]]

RECURSIVE st_size(_)
st_size(content) ==
    IF content = <<>> THEN 0 ELSE LineBytes(Head(content)) + st_size(Tail(content))

(* f.seek(offset); f.readlines(): the lines from the offset on, the first  *)
(* one without the bytes before the offset                                 *)
RECURSIVE ReadFrom(_, _)
ReadFrom(content, offset) ==
    IF content = <<>> THEN <<>>
    ELSE IF offset >= LineBytes(Head(content))
    THEN ReadFrom(Tail(content), offset - LineBytes(Head(content)))
    ELSE <<[line |-> Head(content), skip |-> offset]>> \o ReadFrom(Tail(content), 0)

(* f.tell() after the readlines: the end of the file, or the offset when   *)
(* the seek went past the end                                              *)
Tell(content, offset) ==
    IF offset > st_size(content) THEN offset ELSE st_size(content)

LogDirectoryMonitor == [current_log_file |-> None, last_position |-> 0, last_mtime |-> 0]

(* monitor.py 31-48: the newest candidate; max() keeps the first of equals *)
(* in sorted order                                                         *)
find_active_log_file(d) ==
    IF ~d.exists THEN None
    ELSE LET log_files == {f \in LogFiles : d.files[f].exists}
         IN IF log_files = {} THEN None
            ELSE Some(CHOOSE f \in log_files :
                        \A g \in log_files :
                            \/ d.files[g].st_mtime < d.files[f].st_mtime
                            \/ (d.files[g].st_mtime = d.files[f].st_mtime /\ f <= g))

(* A start_monitoring that leaves the read offset at the start of the file. *)
start_monitoring_from_start(m, d) ==
    LET active == find_active_log_file(d)
    IN IF active # None /\ d.files[Val(active)].exists
       THEN [current_log_file |-> active,
             last_position |-> 0,
             last_mtime |-> d.files[Val(active)].st_mtime]
       ELSE [m EXCEPT !.current_log_file = active]

(* monitor.py 60-69 *)
start_monitoring(m, d) ==
    LET active == find_active_log_file(d)
    IN IF active # None /\ d.files[Val(active)].exists
       THEN [current_log_file |-> active,
             last_position |-> st_size(d.files[Val(active)].content),
             last_mtime |-> d.files[Val(active)].st_mtime]
       ELSE [m EXCEPT !.current_log_file = active]

(* The items on the queue.  A message is its fixed text and the values     *)
(* formatted into it.  A parsed dict is put as it is: its type is the      *)
(* event type.                                                             *)
DebugItem(message, args) == [type |-> "debug", message |-> message, args |-> args]
InfoItem(message, args) == [type |-> "info", message |-> message, args |-> args]
ErrorItem == [type |-> "error", message |-> "str(e)", args |-> <<>>]
ParsedItem(parsed_data) == [type |-> parsed_data.type, message |-> "", args |-> <<parsed_data>>]

RotationMessage == "Log file rotation detected"
TruncationMessage == "File truncation detected"
ClearedMessage == "File cleared"

(* monitor.py 132-144: the loop over new_lines.  Returns the parser        *)
(* afterwards and the items put.                                           *)
RECURSIVE ForwardLines(_, _)
ForwardLines(p, new_lines) ==
    IF new_lines = <<>> THEN [parser |-> p, out |-> <<>>]
    ELSE LET piece == Head(new_lines)
             r == parse_line(p, Suffix(piece.line, piece.skip))
             items ==
                 <<InfoItem("Raw line", <<piece>>)>> \o
                 (IF r.result.type # NoEvent.type
                  THEN <<DebugItem("Parsed", <<r.result.type>>)>> \o
                       (IF r.result.type = "damage_dealt"
                        THEN <<DebugItem("Target, Damage types", <<r.result.target>>)>>
                        ELSE <<>>) \o
                       <<ParsedItem(r.result)>>
                  ELSE <<DebugItem("No match for line", <<>>)>>)
             rest == ForwardLines(r.parser, Tail(new_lines))
         IN [parser |-> rest.parser, out |-> items \o rest.out]

(* A rotation step that keeps the read offset of the file left behind. *)
on_rotation_keep_position(m, active_file) == [m EXCEPT !.current_log_file = active_file]

(* monitor.py 88-89 *)
on_rotation(m, active_file) ==
    [m EXCEPT !.current_log_file = active_file, !.last_position = 0]

(* A truncation step that keeps the read offset. *)
on_truncation_keep_position(m, current_mtime) == [m EXCEPT !.last_mtime = current_mtime]

(* monitor.py 109-110 and 117-118 *)
on_truncation(m, current_mtime) ==
    [m EXCEPT !.last_position = 0, !.last_mtime = current_mtime]

(* The I/O calls of read_new_lines that can raise: the directory scan of   *)
(* find_active_log_file, the stat of the current file, the open.           *)
Faults == {"none", "find", "stat", "open"}

(* monitor.py 71-146.  Returns the monitor and the parser afterwards, the  *)
(* items put on the queue and the lines given to parser.parse_line.  fault *)
(* is the I/O call that raises in this poll when the poll reaches it; the  *)
(* except clause at 145 turns the exception into an error item.            *)
read_new_lines(m, p, d, fault) ==
    LET active == find_active_log_file(d)
        rotated == active # m.current_log_file
        out1 == IF rotated
                THEN <<DebugItem(RotationMessage, <<m.current_log_file, active>>)>>
                ELSE <<>>
        m1 == IF rotated THEN on_rotation(m, active) ELSE m
    IN IF fault = "find"
       THEN [monitor |-> m, parser |-> p, out |-> <<ErrorItem>>, new_lines |-> <<>>]
       ELSE IF m1.current_log_file = None \/ ~d.files[Val(m1.current_log_file)].exists
       THEN [monitor |-> m1, parser |-> p, out |-> out1, new_lines |-> <<>>]
       ELSE IF fault = "stat"
       THEN [monitor |-> m1, parser |-> p, out |-> out1 \o <<ErrorItem>>, new_lines |-> <<>>]
       ELSE
       LET file == d.files[Val(m1.current_log_file)]
           current_size == st_size(file.content)
           current_mtime == file.st_mtime
           truncated == current_size < m1.last_position
           cleared == ~truncated /\ current_size = 0 /\ m1.last_position > 0
           out2 == IF truncated
                   THEN <<DebugItem(TruncationMessage,
                                    <<m1.current_log_file, m1.last_position, current_size>>)>>
                   ELSE IF cleared
                   THEN <<DebugItem(ClearedMessage, <<m1.current_log_file>>)>>
                   ELSE <<>>
           m2 == IF truncated \/ cleared THEN on_truncation(m1, current_mtime) ELSE m1
       IN IF fault = "open"
          THEN [monitor |-> m2, parser |-> p, out |-> out1 \o out2 \o <<ErrorItem>>,
                new_lines |-> <<>>]
          ELSE
          LET new_lines == ReadFrom(file.content, m2.last_position)
              m3 == [m2 EXCEPT !.last_position = Tell(file.content, m2.last_position),
                               !.last_mtime = current_mtime]
              out3 == IF new_lines # <<>>
                      THEN <<DebugItem("Read new line(s)",
                                       <<Len(new_lines), m3.current_log_file>>)>>
                      ELSE <<>>
              fwd == ForwardLines(p, new_lines)
          IN [monitor |-> m3, parser |-> fwd.parser,
              out |-> out1 \o out2 \o out3 \o fwd.out, new_lines |-> new_lines]

(* The monitor side of the constructed program: no directory yet, a fresh  *)
(* monitor, an empty queue.  tail records, since the last start_monitoring *)
(* that selected a file: how many lines that file held then (base), the    *)
(* lines given to the parser since (forwarded), and whether the game has   *)
(* since then neither cleared the selected file nor made another file the  *)
(* active one (clean), and what has happened to the selected file since    *)
(* the last poll that read it: nothing, a start_monitoring, or a clear by  *)
(* the game (since_poll).                                                  *)
InitTail ==
    [started |-> FALSE, clean |-> FALSE, base |-> 0, forwarded |-> <<>>, since_poll |-> "nothing"]

(* queue_processor.py 27-39: QueueProcessor as constructed.  recorded is   *)
(* the history of the record_immunity calls it has made: for each, the     *)
(* immunity event and the damage it was matched with.                      *)
QueueProcessor ==
    [damage_buffer |-> [t \in {} |-> <<>>],
     pending_immunity_queue |-> [t \in {} |-> <<>>],
     parsed_event_count |-> 0,
     recorded |-> <<>>]

InitMonitorVars ==
    /\ dir = NoDirectory
    /\ game = [clock |-> 0, events |-> 0]
    /\ monitor = LogDirectoryMonitor
    /\ data_queue = <<>>
    /\ queue_processor = QueueProcessor
    /\ tail = InitTail

(***************************************************************************)
(* PastLogsParserService (app/services/past_logs_parser.py) and            *)
(* parse_and_import_file (app/utils.py).                                   *)
(*                                                                         *)
(* session_only_state and monitoring_start_position are Optional: None or  *)
(* Some(dict).  A thread is named by its index in workers.                 *)
(*                                                                         *)
(* The containers of the store and the parser are objects that are         *)
(* changed in place.  state_shared says that the containers the store and  *)
(* the parser hold are the very objects session_only_state holds, so that  *)
(* a write to one is a write to the other.  state_when_saved is history:   *)
(* the contents save_session_state copied, as they were then.              *)
(***************************************************************************)
PastLogsParserService ==
    [is_parsing |-> FALSE,
     parse_thread |-> None,
     past_logs_included |-> FALSE,
     session_only_state |-> None,
     monitoring_start_position |-> None,
     state_shared |-> FALSE,
     state_when_saved |-> None]

(* storage.py 34-55 *)
insert_attack_event(st, attacker, target, outcome, roll, bonus, total) ==
    [st EXCEPT !.attacks = Append(@, [attacker |-> attacker, target |-> target,
                                      outcome |-> outcome, roll |-> roll,
                                      bonus |-> bonus, total |-> total])]

(* utils.py 222-249: what parse_and_import_file does with the parsed dict  *)
(* of an attack line (the damage and immunity branches are with the store). *)
ImportParsed(st, parsed_data) ==
    IF parsed_data.type = "attack_hit"
    THEN insert_attack_event(st, parsed_data.attacker, parsed_data.target, "hit",
                             parsed_data.roll, parsed_data.bonus, parsed_data.total)
    ELSE IF parsed_data.type = "attack_hit_critical"
    THEN insert_attack_event(st, parsed_data.attacker, parsed_data.target, "critical_hit",
                             parsed_data.roll, parsed_data.bonus, parsed_data.total)
    ELSE IF parsed_data.type = "attack_miss"
    THEN insert_attack_event(st, parsed_data.attacker, parsed_data.target, "miss",
                             parsed_data.roll, parsed_data.bonus, parsed_data.total)
    ELSE st

(* past_logs_parser.py 122-124 *)
has_data(st) ==
    Len(st.events) > 0 \/ Len(st.attacks) > 0 \/ Len(st.dps_order) > 0

(* The contents of the containers save_session_state copies *)
SessionContents(st, p) ==
    [events |-> st.events,
     attacks |-> st.attacks,
     dps_order |-> st.dps_order,
     dps_data |-> st.dps_data,
     last_damage_timestamp |-> st.last_damage_timestamp,
     immunity_data |-> st.immunity_data,
     target_ac |-> p.target_ac,
     target_saves |-> p.target_saves,
     target_attack_bonus |-> p.target_attack_bonus]

(* past_logs_parser.py 216-235: deep copies, objects of their own *)
save_session_state(svc, st, p) ==
    [svc EXCEPT !.session_only_state = Some(SessionContents(st, p)),
                !.state_shared = FALSE,
                !.state_when_saved = Some(SessionContents(st, p))]

(* past_logs_parser.py 237-257: the saved containers are assigned, not     *)
(* copied, so from here on the store and the parser hold the objects of    *)
(* session_only_state                                                      *)
restore_session_state(svc, st, p) ==
    IF svc.session_only_state = None
    THEN [service |-> svc, store |-> st, parser |-> p]
    ELSE LET saved == Val(svc.session_only_state)
         IN [service |-> [svc EXCEPT !.past_logs_included = FALSE,
                                     !.state_shared = TRUE],
             store |-> [st EXCEPT !.events = saved.events,
                                  !.attacks = saved.attacks,
                                  !.dps_order = saved.dps_order,
                                  !.dps_data = saved.dps_data,
                                  !.last_damage_timestamp = saved.last_damage_timestamp,
                                  !.immunity_data = saved.immunity_data],
             parser |-> [p EXCEPT !.target_ac = saved.target_ac,
                                  !.target_saves = saved.target_saves,
                                  !.target_attack_bonus = saved.target_attack_bonus]]

(* The service after the store and the parser were written to and are now  *)
(* st and p: shared containers show the write in session_only_state too.   *)
(* last_damage_timestamp is a value, not a container (229, 249).           *)
WriteThrough(svc, st, p) ==
    IF svc.state_shared /\ svc.session_only_state # None
    THEN [svc EXCEPT !.session_only_state =
            Some([SessionContents(st, p) EXCEPT
                    !.last_damage_timestamp = Val(svc.session_only_state).last_damage_timestamp])]
    ELSE svc

(* past_logs_parser.py 259-261 *)
mark_past_logs_included(svc) == [svc EXCEPT !.past_logs_included = TRUE]

(* A finally clause that leaves the flag as it is. *)
finally_keep_flag(svc) == svc

(* past_logs_parser.py 194-196 *)
finally_clear_flag(svc) == [svc EXCEPT !.is_parsing = FALSE]

(* The frame of a thread that start_parsing has just started: at the top   *)
(* of _parse_logs_thread, with its arguments and locals.  The callbacks    *)
(* are the caller's: completions is the number of on_complete calls the    *)
(* thread has made, and ending is the on_log report that says how its run  *)
(* went ("No log files found", "Parsing cancelled by user", "Completed",   *)
(* "Error during parsing"), reported the files of its "Error in <file>"    *)
(* reports.  failures counts the parse_and_import_file calls of the run    *)
(* that returned a failure.  stop_requested records that stop_parsing has  *)
(* cleared the flag since the thread was started.                          *)
NewThread(monitoring_start_position) ==
    [pc |-> "begin",
     monitoring_start_position |-> monitoring_start_position,
     log_files |-> <<>>,
     n_files |-> 0,
     total_lines |-> 0,
     files_processed |-> 0,
     ending |-> "running",
     reported |-> <<>>,
     failures |-> 0,
     completions |-> 0,
     stop_requested |-> FALSE]

InitServiceVars ==
    /\ service = PastLogsParserService
    /\ workers = <<>>
    /\ ui = [pc |-> "idle", monitoring_start_position |-> None]

(***************************************************************************)
(* DataStore (app/storage.py).                                             *)
(*                                                                         *)
(* Every public method runs under the store's lock, so each is one atomic  *)
(* step.  A datetime is a whole number of seconds.  dps_data is a dict:    *)
(* dps_order is its key order (insertion order), dps_data the values.      *)
(* A rate (a float in the code) is the exact fraction num/den.             *)
(***************************************************************************)
EmptyDict == [k \in {} |-> 0]

DataStore ==
    [events |-> <<>>,
     attacks |-> <<>>,
     dps_order |-> <<>>,
     dps_data |-> EmptyDict,
     last_damage_timestamp |-> None,
     immunity_data |-> EmptyDict,
     lock |-> None]          \* threading.RLock(): None, or Some(the thread that holds it)

None_types == EmptyDict     \* damage_types=None or {}: both are falsy at storage.py:108

(* storage.py 112-116: add the amounts of one hit to damage_by_type *)
AddByType(by_type, damage_types) ==
    [d \in DOMAIN by_type \cup DOMAIN damage_types |->
        (IF d \in DOMAIN by_type THEN by_type[d] ELSE 0)
      + (IF d \in DOMAIN damage_types THEN damage_types[d] ELSE 0)]

(* An update_dps_data that overwrites the global last-damage timestamp     *)
(* instead of keeping the latest.                                          *)
update_dps_data_overwrite(st, character, damage_amount, timestamp, damage_types) ==
    LET last == Some(timestamp)
        known == character \in DOMAIN st.dps_data
        rec0 == IF known
                THEN [st.dps_data[character] EXCEPT
                        !.total_damage = @ + damage_amount,
                        !.first_timestamp = IF timestamp < @ THEN timestamp ELSE @]
                ELSE [total_damage |-> damage_amount,
                      first_timestamp |-> timestamp,
                      damage_by_type |-> EmptyDict]
        rec1 == IF damage_types # None_types
                THEN [rec0 EXCEPT !.damage_by_type = AddByType(@, damage_types)]
                ELSE rec0
    IN [st EXCEPT
          !.last_damage_timestamp = last,
          !.dps_order = IF known THEN @ ELSE Append(@, character),
          !.dps_data = [c \in DOMAIN @ \cup {character} |->
                           IF c = character THEN rec1 ELSE @[c]]]

(* storage.py 81-116 *)
update_dps_data(st, character, damage_amount, timestamp, damage_types) ==
    LET last == IF st.last_damage_timestamp = None
                   \/ timestamp > Val(st.last_damage_timestamp)
                THEN Some(timestamp)
                ELSE st.last_damage_timestamp
        known == character \in DOMAIN st.dps_data
        rec0 == IF known
                THEN [st.dps_data[character] EXCEPT
                        !.total_damage = @ + damage_amount,
                        !.first_timestamp = IF timestamp < @ THEN timestamp ELSE @]
                ELSE [total_damage |-> damage_amount,
                      first_timestamp |-> timestamp,
                      damage_by_type |-> EmptyDict]
        rec1 == IF damage_types # None_types
                THEN [rec0 EXCEPT !.damage_by_type = AddByType(@, damage_types)]
                ELSE rec0
    IN [st EXCEPT
          !.last_damage_timestamp = last,
          !.dps_order = IF known THEN @ ELSE Append(@, character),
          !.dps_data = [c \in DOMAIN @ \cup {character} |->
                           IF c = character THEN rec1 ELSE @[c]]]

(* storage.py 57-79 *)
insert_damage_event(st, target, damage_type, immunity, total_damage, attacker, timestamp) ==
    [st EXCEPT !.events = Append(@, [target |-> target,
                                     damage_type |-> damage_type,
                                     immunity_absorbed |-> immunity,
                                     total_damage_dealt |-> total_damage,
                                     attacker |-> attacker,
                                     timestamp |-> timestamp])]

(* A lock nobody waits for. *)
lock_not_taken(st, thread) == TRUE

(* with self.lock: whether thread can take the lock now (storage.py 25, 46, *)
(* 68, 90, 146)                                                            *)
lock_free(st, thread) == st.lock = None

(* storage.py 92-93: the first write of update_dps_data *)
update_last_damage_timestamp(st, timestamp) ==
    [st EXCEPT !.last_damage_timestamp =
        IF @ = None \/ timestamp > Val(@) THEN Some(timestamp) ELSE @]

(* storage.py 95: what update_dps_data finds under character: None, or     *)
(* Some(the entry)                                                         *)
dps_entry(st, character) ==
    IF character \in DOMAIN st.dps_data THEN Some(st.dps_data[character]) ELSE None

(* storage.py 95-116: the entry of character is written from the entry     *)
(* that was found (found + amount is computed from the value read, and     *)
(* then stored)                                                            *)
write_dps_entry(st, found, character, damage_amount, timestamp, damage_types) ==
    LET others == DOMAIN st.dps_data \ {character}
        as_found == [st EXCEPT !.dps_data =
                       [c \in others \cup (IF found = None THEN {} ELSE {character}) |->
                           IF c = character THEN Val(found) ELSE st.dps_data[c]]]
        written == update_dps_data(as_found, character, damage_amount, timestamp, damage_types)
    IN [st EXCEPT !.dps_data = written.dps_data,
                  !.dps_order = IF Contains(@, <<character>>) THEN @ ELSE Append(@, character)]

Max2(a, b) == IF a >= b THEN a ELSE b

SetMin(S) == CHOOSE x \in S : \A y \in S : x <= y
SetMax(S) == CHOOSE x \in S : \A y \in S : x >= y

(* a/b > c/d for positive denominators *)
RateGreater(x, y) == x.num * y.den > y.num * x.den

(* list.sort(key=dps, reverse=True): stable, descending *)
RECURSIVE InsertByDps(_, _)
InsertByDps(x, t) ==
    IF t = <<>> THEN <<x>>
    ELSE IF RateGreater(Head(t).dps, x.dps)
         THEN <<Head(t)>> \o InsertByDps(x, Tail(t))
         ELSE <<x>> \o t

RECURSIVE SortByDps(_)
SortByDps(s) ==
    IF s = <<>> THEN <<>> ELSE InsertByDps(Head(s), SortByDps(Tail(s)))

(* An entry whose rate divides by the elapsed time as it is. *)
DpsEntry_unfloored(st, character, start) ==
    LET data == st.dps_data[character]
        time_delta == Val(st.last_damage_timestamp) - start
    IN [character |-> character,
        total_damage |-> data.total_damage,
        time_seconds |-> time_delta,
        dps |-> [num |-> data.total_damage, den |-> time_delta]]

(* storage.py 165-178 and 184-202: one entry of the list.  time_seconds     *)
(* holds the time_delta itself; the rate divides by max(seconds, 1).        *)
DpsEntry(st, character, start) ==
    LET data == st.dps_data[character]
        time_delta == Val(st.last_damage_timestamp) - start
    IN [character |-> character,
        total_damage |-> data.total_damage,
        time_seconds |-> time_delta,
        dps |-> [num |-> data.total_damage, den |-> Max2(time_delta, 1)]]

(* storage.py 136-206.  global_start_time is Optional.                      *)
get_dps_data(st, time_tracking_mode, global_start_time) ==
    IF st.dps_order = <<>> THEN <<>>
    ELSE IF st.last_damage_timestamp = None THEN <<>>
    ELSE IF time_tracking_mode = "global"
    THEN LET start == IF global_start_time = None
                      THEN SetMin({st.dps_data[c].first_timestamp : c \in DOMAIN st.dps_data})
                      ELSE Val(global_start_time)
         IN SortByDps([i \in 1..Len(st.dps_order) |->
                          DpsEntry(st, st.dps_order[i], start)])
    ELSE SortByDps([i \in 1..Len(st.dps_order) |->
                      DpsEntry(st, st.dps_order[i],
                               st.dps_data[st.dps_order[i]].first_timestamp)])

(***************************************************************************)
(* SpecDps: the DPS aggregation, driven by update_dps_data calls.          *)
(***************************************************************************)
Characters == {"CharacterA", "CharacterB"}
Amounts == {100, 200}
Timestamps == {0, 5, 10, 15}
DamageTypes == {"Physical", "Fire"}

TypeDicts(amount) ==
    {None_types} \cup {[d \in {t} |-> amount] : t \in DamageTypes}

(* A at T0 and T0+5, then B at T0+10 and T0+15                              *)
(* (tests/test_per_character_time_tracking.py 41-68)                        *)
DpsScenario ==
    << [character |-> "CharacterA", amount |-> 100, timestamp |-> 0],
       [character |-> "CharacterA", amount |-> 100, timestamp |-> 5],
       [character |-> "CharacterB", amount |-> 200, timestamp |-> 10],
       [character |-> "CharacterB", amount |-> 200, timestamp |-> 15] >>

Off == 0 - 1

TotalDamage(st) ==
    LET RECURSIVE Sum(_)
        Sum(S) == IF S = {} THEN 0
                  ELSE LET c == CHOOSE x \in S : TRUE
                       IN st.dps_data[c].total_damage + Sum(S \ {c})
    IN Sum(DOMAIN st.dps_data)

InitStoreVars ==
    /\ store = DataStore
    /\ seen = {}
    /\ scenario = 0
    /\ ignored = {}

InitDps ==
    /\ InitStoreVars
    /\ InitMonitorVars
    /\ InitServiceVars
    /\ parser = LogParser
    /\ pruned = {}

UpdateDps(character, amount, timestamp, damage_types) ==
    /\ TotalDamage(store) + amount <= 100 * MaxDamageHundreds
    /\ store' = update_dps_data(store, character, amount, timestamp, damage_types)
    /\ seen' = seen \cup {<<character, timestamp>>}
    /\ scenario' =
          IF /\ scenario # Off
             /\ scenario < Len(DpsScenario)
             /\ DpsScenario[scenario + 1] =
                   [character |-> character, amount |-> amount, timestamp |-> timestamp]
          THEN scenario + 1
          ELSE Off
    /\ UNCHANGED <<parserVars, ignored, monitorVars, serviceVars>>

NextDps ==
    \E c \in Characters, a \in Amounts, ts \in Timestamps :
        \E dt \in TypeDicts(a) : UpdateDps(c, a, ts, dt)

SpecDps == InitDps /\ [][NextDps]_vars

(***************************************************************************)
(* SpecDpsCalls: update_dps_data called with timestamps in any order; ui   *)
(* keeps the arguments of the calls made, in order.                        *)
(***************************************************************************)
CallTimestamps == {0, 5, 10}

(* The damage of a call: the amount and its breakdown by type (none given, *)
(* one type, two types).                                                   *)
CallDamages ==
    {[amount |-> 100, damage_types |-> None_types],
     [amount |-> 100, damage_types |-> [d \in {"Fire"} |-> 100]],
     [amount |-> 200, damage_types |-> [d \in {"Fire", "Physical"} |->
                                           IF d = "Fire" THEN 50 ELSE 150]]}

InitDpsCalls ==
    /\ InitStoreVars
    /\ InitMonitorVars
    /\ parser = LogParser
    /\ pruned = {}
    /\ service = PastLogsParserService
    /\ workers = <<>>
    /\ ui = [pc |-> "idle", calls |-> <<>>]

UpdateDpsData(character, damage, timestamp) ==
    /\ Len(ui.calls) < MaxDpsCalls
    /\ store' = update_dps_data(store, character, damage.amount, timestamp,
                                damage.damage_types)
    /\ ui' = [ui EXCEPT !.calls = Append(@, [character |-> character,
                                             amount |-> damage.amount,
                                             timestamp |-> timestamp,
                                             damage_types |-> damage.damage_types])]
    /\ UNCHANGED <<parserVars, seen, scenario, ignored, monitorVars, service, workers>>

NextDpsCalls ==
    \E c \in Characters, damage \in CallDamages, ts \in CallTimestamps :
        UpdateDpsData(c, damage, ts)

SpecDpsCalls == InitDpsCalls /\ [][NextDpsCalls]_vars

(***************************************************************************)
(* DataStore.record_immunity (app/storage.py 756-791).  immunity_data is   *)
(* the nested dict target -> damage type -> record.                        *)
(***************************************************************************)
NewImmunityRecord == [max_immunity |-> 0, max_damage |-> 0, sample_count |-> 0]

(* immunity_data with the records of target and damage_type created when   *)
(* absent (storage.py 779-787)                                             *)
WithImmunityRecord(data, target, damage_type) ==
    LET d1 == GetOrCreate(data, target, EmptyDict)
    IN [d1 EXCEPT ![target] = GetOrCreate(@, damage_type, NewImmunityRecord)]

(* A record_immunity that tracks the two maxima independently. *)
record_immunity_independent(st, target, damage_type, immunity_points, damage_dealt) ==
    LET data == WithImmunityRecord(st.immunity_data, target, damage_type)
        rec0 == [data[target][damage_type] EXCEPT !.sample_count = @ + 1]
        rec1 == [rec0 EXCEPT !.max_damage = Max2(@, damage_dealt),
                             !.max_immunity = Max2(@, immunity_points)]
    IN [st EXCEPT !.immunity_data = [data EXCEPT ![target][damage_type] = rec1]]

record_immunity(st, target, damage_type, immunity_points, damage_dealt) ==
    LET data == WithImmunityRecord(st.immunity_data, target, damage_type)
        rec0 == [data[target][damage_type] EXCEPT !.sample_count = @ + 1]
        rec1 == IF damage_dealt > rec0.max_damage
                THEN [rec0 EXCEPT !.max_damage = damage_dealt,
                                  !.max_immunity = immunity_points]
                ELSE rec0
    IN [st EXCEPT !.immunity_data = [data EXCEPT ![target][damage_type] = rec1]]

(* storage.py 793-806 *)
get_immunity_for_target_and_type(st, target, damage_type) ==
    IF target \in DOMAIN st.immunity_data /\ damage_type \in DOMAIN st.immunity_data[target]
    THEN st.immunity_data[target][damage_type]
    ELSE NewImmunityRecord

(***************************************************************************)
(* SpecImmunity: the immunity records, driven by record_immunity calls.    *)
(***************************************************************************)
ImmunityTargets == {"Goblin"}
ImmunityTypes == {"Fire", "Cold"}
ImmunityPoints == {0, 10, 12, 50}
DamageDealt == {0, 50, 60}

InitImmunity == InitDps

RecordImmunity(target, damage_type, immunity_points, damage_dealt) ==
    LET old == get_immunity_for_target_and_type(store, target, damage_type)
    IN /\ old.sample_count < MaxSamples
       /\ store' = record_immunity(store, target, damage_type, immunity_points, damage_dealt)
       /\ ignored' =
             IF damage_dealt <= old.max_damage /\ immunity_points > old.max_immunity
             THEN ignored \cup {<<target, damage_type>>}
             ELSE ignored
       /\ UNCHANGED <<parserVars, seen, scenario, monitorVars, serviceVars>>

NextImmunity ==
    \E t \in ImmunityTargets, d \in ImmunityTypes, i \in ImmunityPoints, dmg \in DamageDealt :
        RecordImmunity(t, d, i, dmg)

SpecImmunity == InitImmunity /\ [][NextImmunity]_vars

(***************************************************************************)
(* SpecAC: the defense trackers, driven by direct record_hit and           *)
(* record_miss calls on the tracker of a target and by parse_line on       *)
(* attack lines.                                                           *)
(***************************************************************************)
Totals == {r + b : r \in Rolls, b \in Bonuses}

(* The game rolls a d20: a natural 1 never hits and a natural 20 is never  *)
(* a plain miss (it can still be parried, resisted or lost to concealment). *)
Realistic(o, r) ==
    /\ (r = 1 => ~is_hit(o))
    /\ (r = 20 => o # "miss")

AttackLines ==
    {AttackLine(a, t, o, r, b) :
        a \in Attackers, t \in Targets,
        o \in {x \in Outcomes : \E q \in Rolls : Realistic(x, q)},
        r \in Rolls, b \in Bonuses}

LogLines ==
    {l \in AttackLines : Realistic(l.outcome, Val(l.roll))}
        \cup {AttackLineNoRoll(a, t, "miss") : a \in Attackers, t \in Targets}
        \cup {OtherLine}

WithinBounds(p) ==
    /\ \A t \in DOMAIN p.target_ac : Len(p.target_ac[t].hits) <= MaxHits
    /\ \A a \in DOMAIN p.target_attack_bonus :
          \A b \in DOMAIN p.target_attack_bonus[a].bonus_counts :
              p.target_attack_bonus[a].bonus_counts[b] <= MaxBonusCount

(* The targets whose tracker lost a retained hit between p and q. *)
LostHits(p, q) ==
    {t \in DOMAIN p.target_ac :
        Len(q.target_ac[t].hits) < Len(p.target_ac[t].hits)}

InitAC ==
    /\ parser = LogParser
    /\ pruned = {}
    /\ InitStoreVars
    /\ InitMonitorVars
    /\ InitServiceVars

(* ac = parser.target_ac.setdefault(t, EnemyAC(t)); ac.record_hit(total, was_nat20) *)
RecordHit(t, total, was_nat20) ==
    LET ac0 == GetOrCreate(parser.target_ac, t, EnemyAC(t))
        p1 == [parser EXCEPT !.target_ac = [ac0 EXCEPT ![t] = record_hit(@, total, was_nat20)]]
    IN /\ WithinBounds(p1)
       /\ parser' = p1
       /\ UNCHANGED <<pruned, storeVars, monitorVars, serviceVars>>

(* ac = parser.target_ac.setdefault(t, EnemyAC(t)); ac.record_miss(total, was_nat1) *)
RecordMiss(t, total, was_nat1) ==
    LET ac0 == GetOrCreate(parser.target_ac, t, EnemyAC(t))
        p1 == [parser EXCEPT !.target_ac = [ac0 EXCEPT ![t] = record_miss(@, total, was_nat1)]]
    IN /\ parser' = p1
       /\ pruned' = pruned \cup LostHits(parser, p1)
       /\ UNCHANGED <<storeVars, monitorVars, serviceVars>>

ParseLine(line) ==
    LET r == parse_line(parser, line)
    IN /\ WithinBounds(r.parser)
       /\ parser' = r.parser
       /\ pruned' = pruned \cup LostHits(parser, r.parser)
       /\ UNCHANGED <<storeVars, monitorVars, serviceVars>>

NextAC ==
    \/ \E t \in Targets, total \in Totals, f \in BOOLEAN : RecordHit(t, total, f)
    \/ \E t \in Targets, total \in Totals, f \in BOOLEAN : RecordMiss(t, total, f)
    \/ \E line \in LogLines : ParseLine(line)

SpecAC == InitAC /\ [][NextAC]_vars

(***************************************************************************)
(* QueueProcessor (app/services/queue_processor.py): the consumer of the   *)
(* parsed events the monitor puts on the data queue.  damage_buffer is the *)
(* dict target -> last damage event, pending_immunity_queue the nested     *)
(* dict target -> damage type -> list of queued immunities.  A timestamp   *)
(* is a whole number of seconds.                                           *)
(***************************************************************************)
AbsDiff(a, b) == IF a >= b THEN a - b ELSE b - a

(* A correlation that accepts any distance in time. *)
any_time_difference(time_diff) == TRUE

(* queue_processor.py 343-346: time_diff <= 1 *)
within_one_second(time_diff) == time_diff <= 1

(* queue_processor.py 108: the max_age_seconds process_queue passes *)
max_age_seconds == 5

(* f without the keys in ks (del f[k]) *)
Without(f, ks) == [k \in DOMAIN f \ ks |-> f[k]]

(* One call of data_store.record_immunity by the processor, with the entry *)
(* it leaves in recorded.                                                  *)
RecordCorrelation(r, path, target, damage_type, immunity, immunity_timestamp, damage_dealt, damage_timestamp) ==
    [queue_processor |->
        [r.queue_processor EXCEPT !.recorded =
            Append(@, [path |-> path, target |-> target, damage_type |-> damage_type,
                       immunity |-> immunity, immunity_timestamp |-> immunity_timestamp,
                       damage_dealt |-> damage_dealt,
                       damage_timestamp |-> damage_timestamp])],
     store |-> record_immunity(r.store, target, damage_type, immunity, damage_dealt)]

(* queue_processor.py 639-660 *)
queue_immunity(qp, target, damage_type, data) ==
    LET q1 == GetOrCreate(qp.pending_immunity_queue, target, [d \in {} |-> <<>>])
        q2 == [q1 EXCEPT ![target] = GetOrCreate(@, damage_type, <<>>)]
    IN [qp EXCEPT !.pending_immunity_queue =
          [q2 EXCEPT ![target][damage_type] =
              Append(@, [immunity |-> data.immunity_points,
                         timestamp |-> data.timestamp])]]

(* queue_processor.py 335-363: the loop over the immunities queued under   *)
(* one damage type                                                         *)
RECURSIVE record_queued(_, _, _, _, _)
record_queued(r, target, damage_type, queued, damage_event) ==
    IF queued = <<>> THEN r
    ELSE LET queued_immunity == Head(queued)
             damage_dealt == damage_event.damage_types[damage_type]
             time_diff == AbsDiff(damage_event.timestamp, queued_immunity.timestamp)
             r1 == IF within_one_second(time_diff)
                   THEN RecordCorrelation(r, "queued", target, damage_type,
                                          queued_immunity.immunity,
                                          queued_immunity.timestamp,
                                          damage_dealt, damage_event.timestamp)
                   ELSE r
         IN record_queued(r1, target, damage_type, Tail(queued), damage_event)

(* queue_processor.py 331-366: the loop over the queued damage types that  *)
(* the damage event contains                                               *)
RECURSIVE record_queued_types(_, _, _, _)
record_queued_types(r, target, types, damage_event) ==
    IF types = {} THEN r
    ELSE LET damage_type == CHOOSE d \in types : TRUE
             queued == r.queue_processor.pending_immunity_queue[target][damage_type]
             r1 == record_queued(r, target, damage_type, queued, damage_event)
             r2 == [r1 EXCEPT !.queue_processor.pending_immunity_queue[target] =
                                 Without(@, {damage_type})]
         IN record_queued_types(r2, target, types \ {damage_type}, damage_event)

(* queue_processor.py 314-374 *)
process_queued_immunities_batched(qp, st, target, damage_event) ==
    IF target \notin DOMAIN qp.pending_immunity_queue
    THEN [queue_processor |-> qp, store |-> st]
    ELSE LET types == DOMAIN qp.pending_immunity_queue[target]
                         \cap DOMAIN damage_event.damage_types
             r == record_queued_types([queue_processor |-> qp, store |-> st],
                                      target, types, damage_event)
         IN IF DOMAIN r.queue_processor.pending_immunity_queue[target] = {}
            THEN [r EXCEPT !.queue_processor.pending_immunity_queue = Without(@, {target})]
            ELSE r

(* queue_processor.py 194-206: one insert_damage_event per damage type of  *)
(* the event                                                               *)
RECURSIVE insert_damage_events(_, _, _)
insert_damage_events(st, types, data) ==
    IF types = {} THEN st
    ELSE LET dt == CHOOSE d \in types : TRUE
         IN insert_damage_events(
                insert_damage_event(st, data.target, dt, 0, data.damage_types[dt],
                                    data.attacker, data.timestamp),
                types \ {dt}, data)

(* queue_processor.py 152-215 *)
handle_damage_dealt_batched(qp, st, data) ==
    LET st1 == IF data.attacker # ""
               THEN update_dps_data(st, data.attacker, data.total_damage,
                                    data.timestamp, data.damage_types)
               ELSE st
        buffer == [t \in DOMAIN qp.damage_buffer \cup {data.target} |->
                      IF t = data.target
                      THEN [damage_types |-> data.damage_types,
                            timestamp |-> data.timestamp,
                            attacker |-> data.attacker]
                      ELSE qp.damage_buffer[t]]
        st2 == insert_damage_events(st1, DOMAIN data.damage_types, data)
    IN process_queued_immunities_batched([qp EXCEPT !.damage_buffer = buffer], st2,
                                         data.target, data)

(* A handler that queues every immunity event it does not skip. *)
handle_immunity_always_queued(qp, st, p, data) ==
    IF ~p.parse_immunity
    THEN [queue_processor |-> qp, store |-> st]
    ELSE [queue_processor |-> queue_immunity(qp, data.target, data.damage_type, data),
          store |-> st]

(* queue_processor.py 217-273 *)
handle_immunity_batched(qp, st, p, data) ==
    IF ~p.parse_immunity
    THEN [queue_processor |-> qp, store |-> st]
    ELSE IF data.target \in DOMAIN qp.damage_buffer
            /\ data.damage_type \in DOMAIN qp.damage_buffer[data.target].damage_types
    THEN RecordCorrelation([queue_processor |-> qp, store |-> st], "immediate",
                           data.target, data.damage_type, data.immunity_points,
                           data.timestamp,
                           qp.damage_buffer[data.target].damage_types[data.damage_type],
                           qp.damage_buffer[data.target].timestamp)
    ELSE [queue_processor |-> queue_immunity(qp, data.target, data.damage_type, data),
          store |-> st]

(* queue_processor.py 275-312 *)
handle_attack_batched(qp, st, data) ==
    LET event_type == IF data.type \in {"attack_hit_critical", "critical_hit"}
                      THEN "critical_hit"
                      ELSE IF data.type = "attack_hit" THEN "hit" ELSE "miss"
    IN [queue_processor |-> qp,
        store |-> insert_attack_event(st, data.attacker, data.target, event_type,
                                      data.roll, data.bonus, data.total)]

(* queue_processor.py 110-150 *)
handle_event_batched(qp, st, p, data) ==
    IF data.type = "damage_dealt" THEN handle_damage_dealt_batched(qp, st, data)
    ELSE IF data.type = "immunity" THEN handle_immunity_batched(qp, st, p, data)
    ELSE IF data.type \in {"attack_hit", "attack_miss", "attack_hit_critical",
                           "critical_hit"}
    THEN handle_attack_batched(qp, st, data)
    ELSE [queue_processor |-> qp, store |-> st]

(* queue_processor.py 662-697, at wall-clock time now *)
cleanup_stale_immunities(qp, now) ==
    LET fresh(entries) == SelectSeq(entries, LAMBDA e : now - e.timestamp <= max_age_seconds)
        kept == [t \in DOMAIN qp.pending_immunity_queue |->
                   LET by_type == [d \in DOMAIN qp.pending_immunity_queue[t] |->
                                      fresh(qp.pending_immunity_queue[t][d])]
                   IN Without(by_type, {d \in DOMAIN by_type : by_type[d] = <<>>})]
    IN [qp EXCEPT !.pending_immunity_queue =
          Without(kept, {t \in DOMAIN kept : DOMAIN kept[t] = {}})]

(* queue_processor.py 68-84: the loop that drains the queue.  A parsed     *)
(* event is the dict itself; the monitor's debug, info and error items go  *)
(* to on_log_message (queue_processor.py 147-148).                         *)
RECURSIVE handle_events(_, _, _)
handle_events(r, p, events) ==
    IF events = <<>> THEN r
    ELSE LET item == Head(events)
             r1 == IF item.type \in {"debug", "info", "error"} THEN r
                   ELSE handle_event_batched(r.queue_processor, r.store, p, item.args[1])
         IN handle_events(r1, p, Tail(events))

(* queue_processor.py 41-108 *)
process_queue(qp, st, p, events, now) ==
    LET r == handle_events([queue_processor |-> qp, store |-> st], p, events)
        counted == [r.queue_processor EXCEPT !.parsed_event_count = @ + Len(events)]
    IN [queue_processor |-> IF counted.parsed_event_count % 100 = 0
                            THEN cleanup_stale_immunities(counted, now)
                            ELSE counted,
        store |-> r.store]

(***************************************************************************)
(* The callbacks of process_queue (queue_processor.py 62-101).  A result   *)
(* is the dict a handler returns, with None for an absent key; the calls   *)
(* of a callback are a bag: for each target, how often it was called.      *)
(***************************************************************************)
NoResult ==
    [dps_updated |-> FALSE, target |-> None, immunity_target |-> None,
     damage_target |-> None]

(* queue_processor.py 166-215, 231-273, 312: the dict _handle_event_batched *)
(* returns for data, handled from processor qp to processor qp1.           *)
(* processed_any and the immediate match both show as a new                *)
(* record_immunity call.                                                   *)
event_result(qp, qp1, p, data) ==
    LET recorded_any == Len(qp1.recorded) > Len(qp.recorded)
    IN IF data.type = "damage_dealt"
       THEN [NoResult EXCEPT !.dps_updated = data.attacker # "",
                             !.damage_target = Some(data.target),
                             !.immunity_target = IF recorded_any THEN Some(data.target)
                                                 ELSE None]
       ELSE IF data.type = "immunity"
       THEN [NoResult EXCEPT !.target = IF recorded_any THEN Some(data.target) ELSE None]
       ELSE IF data.type \in {"attack_hit", "attack_miss", "attack_hit_critical",
                              "critical_hit"}
       THEN [NoResult EXCEPT !.target = Some(data.target)]
       ELSE NoResult

(* queue_processor.py 68-84: the results of the drained items, in order *)
RECURSIVE drain_results(_, _, _)
drain_results(r, p, events) ==
    IF events = <<>> THEN <<>>
    ELSE LET item == Head(events)
             logged == item.type \in {"debug", "info", "error"}
             r1 == IF logged THEN r
                   ELSE handle_event_batched(r.queue_processor, r.store, p, item.args[1])
             result == IF logged THEN NoResult
                       ELSE event_result(r.queue_processor, r1.queue_processor, p,
                                         item.args[1])
         IN <<result>> \o drain_results(r1, p, Tail(events))

(* The number of results that name target under key *)
Named(results, key, target) ==
    Cardinality({i \in DOMAIN results : results[i][key] = Some(target)})

NamedTargets(results, key) ==
    {Val(results[i][key]) : i \in {j \in DOMAIN results : results[j][key] # None}}

(* Callbacks fired for every result as it comes. *)
fire_callbacks_per_event(results) ==
    [on_dps_updated |-> Cardinality({i \in DOMAIN results : results[i].dps_updated}),
     on_target_selected |-> [t \in NamedTargets(results, "target") |->
                                Named(results, "target", t)],
     on_immunity_changed |-> [t \in NamedTargets(results, "immunity_target") |->
                                Named(results, "immunity_target", t)],
     on_damage_dealt |-> [t \in NamedTargets(results, "damage_target") |->
                                Named(results, "damage_target", t)]]

(* queue_processor.py 62-65 and 76-101: the flag and the three sets the    *)
(* results are collected in, and a call per flag and per element           *)
fire_callbacks(results) ==
    LET dps_updated == \E i \in DOMAIN results : results[i].dps_updated
        targets_to_refresh == NamedTargets(results, "target")
        immunity_targets == NamedTargets(results, "immunity_target")
        damage_targets == NamedTargets(results, "damage_target")
    IN [on_dps_updated |-> IF dps_updated THEN 1 ELSE 0,
        on_target_selected |-> [t \in targets_to_refresh |-> 1],
        on_immunity_changed |-> [t \in immunity_targets |-> 1],
        on_damage_dealt |-> [t \in damage_targets |-> 1]]

(***************************************************************************)
(* SpecBatch: events are put on the queue and process_queue drains them.   *)
(* ui keeps, of the last process_queue call, the items it drained, the     *)
(* calls of the callbacks and the sizes of the store before and after.     *)
(***************************************************************************)
BatchLines ==
    {DamageLine("Woo", "Goblin", 50, [d \in {"Physical", "Fire"} |->
                                         IF d = "Fire" THEN 20 ELSE 30], 1),
     DamageLine("Woo", "Orc", 40, [d \in {"Physical"} |-> 40], 1),
     DamageLine("", "Orc", 5, [d \in {"Fire"} |-> 5], 1),
     ImmunityLine("Goblin", 10, "Fire", 1),
     AttackLine("Woo", "Goblin", "hit", 16, 5),
     AttackLine("Woo", "Orc", "miss", 10, 5)}

(* The items the monitor puts: the event a line parses to, or a debug      *)
(* item.  The third line is "[..]   damages Orc: 5 (5 Fire)", whose        *)
(* attacker parser.py 171 strips to the empty string.                      *)
BatchItems ==
    {ParsedItem(parse_line([LogParser EXCEPT !.parse_immunity = TRUE], line).result) :
        line \in BatchLines}
        \cup {DebugItem("No match for line", <<>>)}

InitBatch ==
    /\ \E on \in BOOLEAN : parser = [LogParser EXCEPT !.parse_immunity = on]
    /\ pruned = {}
    /\ InitStoreVars
    /\ InitMonitorVars
    /\ service = PastLogsParserService
    /\ workers = <<>>
    /\ ui = [pc |-> "idle"]

batchFrame == <<parserVars, seen, scenario, ignored, dir, monitor, tail, service, workers>>

(* data_queue.put(item) *)
PutItem(item) ==
    /\ game.events < MaxBatch
    /\ data_queue' = Append(data_queue, item)
    /\ game' = [game EXCEPT !.events = @ + 1]
    /\ UNCHANGED <<store, queue_processor, ui, batchFrame>>

(* main_window.py 508-524: process_queue with the four callbacks *)
ProcessBatch ==
    LET r == process_queue(queue_processor, store, parser, data_queue, game.clock)
        results == drain_results([queue_processor |-> queue_processor, store |-> store],
                                 parser, data_queue)
    IN /\ queue_processor' = r.queue_processor
       /\ store' = r.store
       /\ data_queue' = <<>>
       /\ ui' = [pc |-> "processed", drained |-> data_queue,
                 calls |-> fire_callbacks(results),
                 before |-> [events |-> Len(store.events), attacks |-> Len(store.attacks)],
                 after |-> [events |-> Len(r.store.events),
                            attacks |-> Len(r.store.attacks)]]
       /\ UNCHANGED <<game, batchFrame>>

NextBatch ==
    \/ \E item \in BatchItems : PutItem(item)
    \/ ProcessBatch

SpecBatch == InitBatch /\ [][NextBatch]_vars

(***************************************************************************)
(* SpecQueue: the live pipeline.  The game writes a line, the monitor      *)
(* parses it and puts its items and the event on the data queue            *)
(* (monitor.py 126-144, from poll_log_file, main_window.py 364-373), and   *)
(* a timer of its own has the processor drain the queue (main_window.py    *)
(* 508-524).  The user can tick and untick the immunity checkbox between   *)
(* any two of these (immunity_panel.py 58-60).  The session starts after   *)
(* 32 lines that no pattern matches: they left the store and the parser    *)
(* empty and put 96 items on the queue, so the processor is four items     *)
(* short of the clean-up it runs at every multiple of 100.                 *)
(* tail.forwarded is the history of the lines read, and ignored tells      *)
(* whether an immunity line went unparsed or an immunity event was skipped *)
(* because the checkbox was off at that moment.                            *)
(***************************************************************************)
Fire20 == [d \in {"Physical", "Fire"} |-> IF d = "Fire" THEN 20 ELSE 30]
Elapsed == {1, 2}             \* seconds from the last timed line to a damage or immunity line
Idle == {0, 6}                \* seconds since the last line when the queue is drained
ItemsBefore == 32 * 3         \* parsed_event_count of the processor at the start

QueueLines(clock) ==
    {DamageLine("Woo", "Goblin", 50, Fire20, clock + e) : e \in Elapsed}
        \cup {ImmunityLine("Goblin", 10, "Fire", clock + e) : e \in Elapsed}
        \cup {AttackLine("Woo", "Goblin", "hit", 16, 5),
              AttackLine("Woo", "Goblin", "miss", 10, 5)}

InitQueue ==
    /\ parser = LogParser
    /\ pruned = {}
    /\ InitStoreVars
    /\ dir = NoDirectory
    /\ game = [clock |-> 0, events |-> 0]
    /\ monitor = LogDirectoryMonitor
    /\ data_queue = <<>>
    /\ queue_processor = [QueueProcessor EXCEPT !.parsed_event_count = ItemsBefore]
    /\ tail = InitTail
    /\ InitServiceVars

queueFrame == <<seen, scenario, dir, monitor, serviceVars>>

(* The game writes line and the monitor reads, parses and forwards it. *)
ReadLine(line) ==
    LET r == ForwardLines(parser, <<[line |-> line, skip |-> 0]>>)
    IN /\ game.events < MaxLines
       /\ parser' = r.parser
       /\ pruned' = pruned \cup LostHits(parser, r.parser)
       /\ data_queue' = data_queue \o <<DebugItem("Read new line(s)", <<1>>)>> \o r.out
       /\ game' = [clock |-> IF line.kind = "attack" THEN game.clock
                             ELSE line.timestamp,
                   events |-> game.events + 1]
       /\ tail' = [tail EXCEPT !.forwarded = Append(@, line)]
       /\ ignored' = IF line.kind = "immunity" /\ ~parser.parse_immunity
                     THEN ignored \cup {"unparsed"} ELSE ignored
       /\ UNCHANGED <<store, queue_processor, queueFrame>>

(* One pass of the poll loop over the queue, idle seconds after the last   *)
(* line was written.                                                       *)
ProcessQueue(idle) ==
    LET r == process_queue(queue_processor, store, parser, data_queue, game.clock + idle)
    IN /\ queue_processor' = r.queue_processor
       /\ store' = r.store
       /\ data_queue' = <<>>
       /\ ignored' = IF ~parser.parse_immunity
                          /\ \E i \in DOMAIN data_queue : data_queue[i].type = "immunity"
                     THEN ignored \cup {"skipped"} ELSE ignored
       /\ UNCHANGED <<parserVars, game, tail, queueFrame>>

(* immunity_panel.py 58-60: the checkbox sets parser.parse_immunity *)
ToggleParseImmunity ==
    /\ parser' = [parser EXCEPT !.parse_immunity = ~@]
    /\ UNCHANGED <<pruned, store, game, data_queue, queue_processor, tail, ignored,
                    queueFrame>>

NextQueue ==
    \/ \E line \in QueueLines(game.clock) : ReadLine(line)
    \/ \E idle \in Idle : ProcessQueue(idle)
    \/ ToggleParseImmunity

SpecQueue == InitQueue /\ [][NextQueue]_vars

(***************************************************************************)
(* The immunity solver (app/utils.py 12-132).  An immunity is a float in   *)
(* the code; here it is its number of hundredths, immunity = pct / 100.    *)
(* Where the exact value of a float expression lies strictly between the   *)
(* two things it is compared with, the float does too (the distance is at  *)
(* least 1/(100 * damage), rounding errors are below 1e-12).  Where the    *)
(* exact value sits on the boundary, rounding decides, so the operators    *)
(* return the set of outcomes: math.floor of a product whose exact value   *)
(* is a whole number is that number or one less, and a window bound that   *)
(* is met exactly includes the step or not.  Over 1..1000 x 0..100 and     *)
(* both orders of arguments the value the code returns is in the set.      *)
(***************************************************************************)
(* The hundredths that a float holds exactly. *)
Dyadic == {0, 25, 50, 75, 100}

(* int(x * 100) for x = i * 0.01: 28 for 0.29 and 57 for 0.58, i otherwise *)
(* (utils.py 108)                                                          *)
int_of_hundredths(i) == IF i \in {29, 58} THEN i - 1 ELSE i

(* utils.py 32: math.floor(dmg_before_immunity * immunity) *)
floor_product(dmg_before_immunity, pct) ==
    LET q == (dmg_before_immunity * pct) \div 100
    IN IF (dmg_before_immunity * pct) % 100 = 0 /\ pct \notin Dyadic
       THEN {q - 1, q}
       ELSE {q}

(* utils.py 12-33 *)
compute_dmg_reduced(dmg_before_immunity, pct) ==
    IF dmg_before_immunity <= 0 THEN {0}
    ELSE IF pct <= 0 THEN {0}
    ELSE {Max2(1, raw) : raw \in floor_product(dmg_before_immunity, pct)}

(* utils.py 52-89: the steps that may be among the matches, and those that *)
(* are among them whatever the rounding                                    *)
reverse_immunity(dmg_after_immunity, dmg_reduced) ==
    LET dmg_before_immunity == dmg_after_immunity + dmg_reduced
        lo == 100 * dmg_reduced - dmg_before_immunity
        hi == 100 * dmg_reduced + dmg_before_immunity
        may == {i \in 0..100 :
                   /\ lo <= i * dmg_before_immunity /\ i * dmg_before_immunity <= hi
                   /\ dmg_reduced \in compute_dmg_reduced(dmg_before_immunity, i)}
        must == {i \in may :
                   /\ lo < i * dmg_before_immunity /\ i * dmg_before_immunity < hi
                   /\ compute_dmg_reduced(dmg_before_immunity, i) = {dmg_reduced}}
    IN IF dmg_before_immunity <= 0 \/ dmg_reduced <= 0
       THEN [may |-> {0}, must |-> {0}]
       ELSE [may |-> may, must |-> must]

(* utils.py 93-108: int(min(matches) * 100), None for no matches *)
pick_immunity(matches) ==
    {Some(int_of_hundredths(i)) : i \in {m \in matches.may : \A j \in matches.must : j >= m}}
        \cup (IF matches.must = {} THEN {None} ELSE {})

(* utils.py 112-132 *)
calculate_immunity_percentage(max_damage, max_absorbed) ==
    IF max_damage <= 0 THEN {None}
    ELSE IF max_absorbed <= 0 THEN {Some(0)}
    ELSE pick_immunity(reverse_immunity(max_damage, max_absorbed))

(***************************************************************************)
(* SpecSolver: a hit of dmg_before_immunity points on a target whose       *)
(* immunity is pct percent; the game reduces it, and the solver is asked   *)
(* for the percentage, with the damage before the reduction or with the    *)
(* damage after it (the amount the damage line shows, which is what the    *)
(* immunity panel passes, immunity_panel.py 193-194).                      *)
(***************************************************************************)
DamageBefore == 1..MaxDamageBefore
Percentages == 0..100
Conventions == {"before", "after"}

InitSolver ==
    /\ parser = LogParser
    /\ pruned = {}
    /\ InitStoreVars
    /\ InitMonitorVars
    /\ service = PastLogsParserService
    /\ workers = <<>>
    /\ ui \in {[pc |-> "hit", dmg_before_immunity |-> b, pct |-> p] :
                  b \in DamageBefore, p \in Percentages}

solverFrame == <<parserVars, storeVars, monitorVars, service, workers>>

Reduce ==
    /\ ui.pc = "hit"
    /\ \E reduced \in compute_dmg_reduced(ui.dmg_before_immunity, ui.pct) :
          ui' = [pc |-> "reduced", dmg_before_immunity |-> ui.dmg_before_immunity,
                 pct |-> ui.pct, dmg_reduced |-> reduced]
    /\ UNCHANGED solverFrame

Calculate(convention) ==
    /\ ui.pc = "reduced"
    /\ LET max_damage == IF convention = "before" THEN ui.dmg_before_immunity
                         ELSE ui.dmg_before_immunity - ui.dmg_reduced
       IN \E v \in calculate_immunity_percentage(max_damage, ui.dmg_reduced) :
             ui' = [pc |-> "calculated", dmg_before_immunity |-> ui.dmg_before_immunity,
                    pct |-> ui.pct, dmg_reduced |-> ui.dmg_reduced,
                    called_with |-> convention, result |-> v]
    /\ UNCHANGED solverFrame

NextSolver ==
    \/ Reduce
    \/ \E convention \in Conventions : Calculate(convention)

SpecSolver == InitSolver /\ [][NextSolver]_vars

(***************************************************************************)
(* SpecEstimates: everything a session estimates about its targets, driven *)
(* by parse_line on attack and save lines, by record_immunity calls, and   *)
(* by the Reset button (reset_data, ui/main_window.py 384-418; the service *)
(* and the monitor are in their initial states here, which reset_data      *)
(* leaves as they are).                                                    *)
(***************************************************************************)
EstimateLines ==
    {AttackLine("Woo", "Goblin", "hit", r, 5) : r \in {11, 13, 16}}
        \cup {AttackLine("Woo", "Goblin", "miss", r, 5) : r \in {9, 10, 13}}
        \cup {SaveLine("Goblin", t, b) : t \in {"fortitude", "will"}, b \in {4, 7}}
EstimateSamples == {<<10, 50>>, <<12, 50>>, <<10, 60>>}   \* immunity points, damage dealt

(* A clear that empties the two event lists only. *)
clear_events_only(st) ==
    [st EXCEPT !.events = <<>>, !.attacks = <<>>]

(* storage.py 650-657 *)
clear_all_data(st) ==
    [st EXCEPT !.events = <<>>, !.attacks = <<>>, !.dps_order = <<>>,
               !.dps_data = EmptyDict, !.immunity_data = EmptyDict,
               !.last_damage_timestamp = None]

InitEstimates == InitDps

estimatesFrame == <<seen, scenario, ignored, dir, monitor, data_queue, queue_processor,
                    tail, serviceVars>>

ParseEstimateLine(line) ==
    LET r == parse_line(parser, line)
    IN /\ game.events < MaxEstimateEvents
       /\ parser' = r.parser
       /\ pruned' = pruned \cup LostHits(parser, r.parser)
       /\ game' = [game EXCEPT !.events = @ + 1]
       /\ UNCHANGED <<store, estimatesFrame>>

RecordSample(immunity_points, damage_dealt) ==
    /\ game.events < MaxEstimateEvents
    /\ store' = record_immunity(store, "Goblin", "Fire", immunity_points, damage_dealt)
    /\ game' = [game EXCEPT !.events = @ + 1]
    /\ UNCHANGED <<parserVars, estimatesFrame>>

(* ui/main_window.py 392-394: the three .clear() calls on the parser *)
clear_registries(p) ==
    [p EXCEPT !.target_ac = [t \in {} |-> EnemyAC(t)],
              !.target_saves = [t \in {} |-> EnemySaves(t)],
              !.target_attack_bonus = [a \in {} |-> TargetAttackBonus(a)]]

(* ui/main_window.py 384-418 *)
ResetData ==
    /\ game.events < MaxEstimateEvents
    /\ store' = clear_all_data(store)
    /\ parser' = clear_registries(parser)
    /\ game' = [game EXCEPT !.events = @ + 1]
    /\ UNCHANGED <<pruned, estimatesFrame>>

NextEstimates ==
    \/ \E line \in EstimateLines : ParseEstimateLine(line)
    \/ \E s \in EstimateSamples : RecordSample(s[1], s[2])
    \/ ResetData

SpecEstimates == InitEstimates /\ [][NextEstimates]_vars

(***************************************************************************)
(* SpecReset: the live pipeline of SpecQueue with the immunity checkbox    *)
(* ticked, and the Reset Data button (ui/main_window.py 384-420).          *)
(* reset_data clears the store and the parser's registries; it does not    *)
(* touch the processor.  ui.at_reset is history: the processor as it was   *)
(* at the last reset.                                                      *)
(***************************************************************************)
InitReset ==
    /\ parser = [LogParser EXCEPT !.parse_immunity = TRUE]
    /\ pruned = {}
    /\ InitStoreVars
    /\ dir = NoDirectory
    /\ game = [clock |-> 0, events |-> 0]
    /\ monitor = LogDirectoryMonitor
    /\ data_queue = <<>>
    /\ queue_processor = [QueueProcessor EXCEPT !.parsed_event_count = ItemsBefore]
    /\ tail = InitTail
    /\ service = PastLogsParserService
    /\ workers = <<>>
    /\ ui = [pc |-> "idle", at_reset |-> None]

(* ui/main_window.py 391-394 and 416: clear_all_data, the three registries *)
(* and the service's saved state; monitoring_start_position is rewritten   *)
(* by the monitor (410-412), which SpecReset does not use                  *)
ResetQueueData ==
    /\ store' = clear_all_data(store)
    /\ parser' = clear_registries(parser)
    /\ ui' = [ui EXCEPT !.at_reset = Some(queue_processor)]
    /\ UNCHANGED <<pruned, seen, scenario, ignored, dir, game, monitor, data_queue,
                    queue_processor, tail, service, workers>>

NextReset ==
    \/ \E line \in QueueLines(game.clock) : ReadLine(line)
    \/ \E idle \in Idle : ProcessQueue(idle)
    \/ ResetQueueData

SpecReset == InitReset /\ [][NextReset]_vars

(***************************************************************************)
(* SpecCleanup: the pending immunity queue over many passes of             *)
(* process_queue.  One immunity line with no damage before it is read and  *)
(* queued; time passes; the polls that follow read lines that no pattern   *)
(* matches, one or more per poll, and each pass drains what one poll put   *)
(* on the queue: the "Read n new line(s)" item and two items per line      *)
(* (monitor.py 126-144).  game.clock is the wall clock, which is also the  *)
(* time the game stamps on a line.  ui.processed is history: the number of *)
(* items drained by the passes that began with an entry more than          *)
(* max_age_seconds old in the queue.                                       *)
(***************************************************************************)
MaxPollLines == 2
MaxEventCount == 210

InitCleanup ==
    /\ parser = [LogParser EXCEPT !.parse_immunity = TRUE]
    /\ pruned = {}
    /\ InitStoreVars
    /\ dir = NoDirectory
    /\ game = [clock |-> 0, events |-> 0]
    /\ monitor = LogDirectoryMonitor
    /\ data_queue = <<>>
    /\ queue_processor = QueueProcessor
    /\ tail = InitTail
    /\ service = PastLogsParserService
    /\ workers = <<>>
    /\ ui = [pc |-> "idle", processed |-> 0]

cleanupFrame == <<pruned, seen, scenario, ignored, dir, monitor, data_queue, tail,
                  service, workers>>

(* Whether qp holds a queued entry that is more than max_age_seconds old   *)
(* at time now.                                                            *)
HoldsStale(qp, now) ==
    \E target \in DOMAIN qp.pending_immunity_queue :
        \E damage_type \in DOMAIN qp.pending_immunity_queue[target] :
            \E i \in DOMAIN qp.pending_immunity_queue[target][damage_type] :
                now - qp.pending_immunity_queue[target][damage_type][i].timestamp
                    > max_age_seconds

(* One poll that read lines, and the pass that drains its items *)
PollAndProcess(lines) ==
    LET fwd == ForwardLines(parser, [i \in DOMAIN lines |-> [line |-> lines[i], skip |-> 0]])
        items == <<DebugItem("Read new line(s)", <<Len(lines)>>)>> \o fwd.out
        r == process_queue(queue_processor, store, fwd.parser, items, game.clock)
    IN /\ queue_processor.parsed_event_count < MaxEventCount
       /\ parser' = fwd.parser
       /\ queue_processor' = r.queue_processor
       /\ store' = r.store
       /\ ui' = [ui EXCEPT !.processed = IF HoldsStale(queue_processor, game.clock)
                                         THEN @ + Len(items) ELSE 0]
       /\ UNCHANGED <<game, cleanupFrame>>

(* The immunity line, read while nothing is queued *)
PollImmunity ==
    /\ queue_processor.pending_immunity_queue = QueueProcessor.pending_immunity_queue
    /\ PollAndProcess(<<ImmunityLine("Goblin", 10, "Fire", game.clock)>>)

(* Polls that read n lines that no pattern matches *)
PollUnmatched(n) == PollAndProcess([i \in 1..n |-> OtherLine])

(* Six seconds pass with nothing written to the log *)
Wait ==
    /\ game.clock = 0
    /\ game' = [game EXCEPT !.clock = 6]
    /\ UNCHANGED <<parser, store, queue_processor, ui, cleanupFrame>>

NextCleanup ==
    \/ PollImmunity
    \/ \E n \in 1..MaxPollLines : PollUnmatched(n)
    \/ Wait

SpecCleanup == InitCleanup /\ [][NextCleanup]_vars

(***************************************************************************)
(* SpecBonus: attack lines of one attacker with bonuses in any order; the  *)
(* parser gives each bonus to the attacker's TargetAttackBonus (parser.py  *)
(* 274-277).  ui.calls keeps the bonuses given to record_bonus, in order.  *)
(***************************************************************************)
BonusValues == {-2, 5, 8}

InitBonus ==
    /\ InitStoreVars
    /\ InitMonitorVars
    /\ service = PastLogsParserService
    /\ workers = <<>>
    /\ parser = LogParser
    /\ pruned = {}
    /\ ui = [pc |-> "idle", calls |-> <<>>]

bonusFrame == <<storeVars, dir, game, monitor, data_queue, queue_processor, tail,
                service, workers>>

(* parser.py 274-277: record_bonus(bonus) for the attacker of the line *)
RecordBonus(bonus) ==
    LET r == parse_line(parser, AttackLine("Goblin", "Woo", "miss", 10, bonus))
    IN /\ Len(ui.calls) < MaxBonusCalls
       /\ parser' = r.parser
       /\ pruned' = pruned \cup LostHits(parser, r.parser)
       /\ ui' = [pc |-> "recorded", calls |-> Append(ui.calls, bonus)]
       /\ UNCHANGED bonusFrame

NextBonus == \E bonus \in BonusValues : RecordBonus(bonus)

SpecBonus == InitBonus /\ [][NextBonus]_vars

(***************************************************************************)
(* SpecStoreOps: the public operations of DataStore, called one after the  *)
(* other in any order.  ui keeps the name of the last operation and the    *)
(* store it was called on.                                                 *)
(***************************************************************************)
StoreQueries == {"get_dps_data", "close"}
OpCharacters == {"Woo"}
OpTargets == {"Goblin"}
OpAmounts == {10, 25}

InitStoreOps ==
    /\ InitStoreVars
    /\ InitMonitorVars
    /\ service = PastLogsParserService
    /\ workers = <<>>
    /\ parser = LogParser
    /\ pruned = {}
    /\ ui = [pc |-> "idle", op |-> "__init__", before |-> DataStore]

storeOpsFrame == <<parserVars, seen, scenario, ignored, dir, monitor, data_queue,
                   queue_processor, tail, service, workers>>

(* One call of operation op that leaves the store as st *)
StoreOp(op, st) ==
    /\ game.events < MaxStoreOps
    /\ store' = st
    /\ ui' = [pc |-> "called", op |-> op, before |-> store]
    /\ game' = [clock |-> game.clock + 1, events |-> game.events + 1]
    /\ UNCHANGED storeOpsFrame

(* storage.py 34-55 *)
CallInsertAttackEvent(attacker, target, outcome) ==
    StoreOp("insert_attack_event",
            insert_attack_event(store, attacker, target, outcome, 12, 5, 17))

(* storage.py 57-79 *)
CallInsertDamageEvent(attacker, target, amount) ==
    StoreOp("insert_damage_event",
            insert_damage_event(store, target, "Fire", 0, amount, attacker, game.clock))

(* storage.py 81-116 *)
CallUpdateDpsData(character, amount) ==
    StoreOp("update_dps_data",
            update_dps_data(store, character, amount, game.clock,
                            [d \in {"Fire"} |-> amount]))

(* storage.py 756-791 *)
CallRecordImmunity(target, amount) ==
    StoreOp("record_immunity", record_immunity(store, target, "Fire", 5, amount))

(* storage.py 650-657 *)
CallClearAllData ==
    StoreOp("clear_all_data", clear_all_data(store))

(* storage.py 118-648, 659-754, 793-806: the queries, and close, which     *)
(* does nothing                                                            *)
CallQuery(op) ==
    StoreOp(op, store)

NextStoreOps ==
    \/ \E a \in OpCharacters, t \in OpTargets, o \in {"hit", "miss"} :
          CallInsertAttackEvent(a, t, o)
    \/ \E a \in OpCharacters, t \in OpTargets, n \in OpAmounts :
          CallInsertDamageEvent(a, t, n)
    \/ \E c \in OpCharacters, n \in OpAmounts : CallUpdateDpsData(c, n)
    \/ \E t \in OpTargets, n \in OpAmounts : CallRecordImmunity(t, n)
    \/ CallClearAllData
    \/ \E op \in StoreQueries : CallQuery(op)

SpecStoreOps == InitStoreOps /\ [][NextStoreOps]_vars

(***************************************************************************)
(* SpecStoreLock: the poll loop (thread 1) and the background worker       *)
(* (thread 2) call DataStore methods at the same time.  A call takes the   *)
(* lock, does its reads and writes one at a time, and releases the lock.   *)
(* list.append is one step; update_dps_data writes last_damage_timestamp,  *)
(* reads the character's entry, and writes it.  Each call has a timestamp  *)
(* of its own.  seen is history: the calls that have returned.             *)
(***************************************************************************)
StoreThreads == {1, 2}
StoreMethods == {"insert_damage_event", "update_dps_data", "get_dps_data"}
StoreAmounts == {10, 50}

IdleCall == [pc |-> "idle", method |-> "none", amount |-> 0, timestamp |-> 0, found |-> None]

InitStoreLock ==
    /\ parser = LogParser
    /\ pruned = {}
    /\ InitStoreVars
    /\ InitMonitorVars
    /\ service = PastLogsParserService
    /\ workers = <<IdleCall, IdleCall>>
    /\ ui = [pc |-> "idle", monitoring_start_position |-> None]

storeLockFrame == <<parserVars, scenario, ignored, dir, monitor, data_queue,
                   queue_processor, tail, service, ui>>

(* a thread calls a method *)
CallStore(t, method, amount) ==
    /\ workers[t].pc = "idle"
    /\ game.events < MaxCalls
    /\ game' = [clock |-> game.clock + 1, events |-> game.events + 1]
    /\ workers' = [workers EXCEPT ![t] =
          [pc |-> "with_lock", method |-> method, amount |-> amount,
           timestamp |-> game.clock + 1, found |-> None]]
    /\ UNCHANGED <<store, seen, storeLockFrame>>

(* with self.lock: *)
AcquireLock(t) ==
    /\ workers[t].pc = "with_lock"
    /\ lock_free(store, t)
    /\ store' = [store EXCEPT !.lock = Some(t)]
    /\ workers' = [workers EXCEPT ![t].pc = workers[t].method]
    /\ UNCHANGED <<game, seen, storeLockFrame>>

(* storage.py 68-79 *)
InsertDamageEvent(t) ==
    /\ workers[t].pc = "insert_damage_event"
    /\ store' = insert_damage_event(store, "Goblin", "Fire", 0, workers[t].amount,
                                    "Woo", workers[t].timestamp)
    /\ workers' = [workers EXCEPT ![t].pc = "release"]
    /\ UNCHANGED <<game, seen, storeLockFrame>>

(* storage.py 92-95 *)
UpdateDpsStamp(t) ==
    /\ workers[t].pc = "update_dps_data"
    /\ store' = update_last_damage_timestamp(store, workers[t].timestamp)
    /\ workers' = [workers EXCEPT ![t].pc = "write_entry",
                                  ![t].found = dps_entry(store, "Woo")]
    /\ UNCHANGED <<game, seen, storeLockFrame>>

(* storage.py 95-116 *)
UpdateDpsEntry(t) ==
    /\ workers[t].pc = "write_entry"
    /\ store' = write_dps_entry(store, workers[t].found, "Woo", workers[t].amount,
                                workers[t].timestamp, None_types)
    /\ workers' = [workers EXCEPT ![t].pc = "release", ![t].found = None]
    /\ UNCHANGED <<game, seen, storeLockFrame>>

(* storage.py 146-206: a query reads the store *)
GetDpsData(t) ==
    /\ workers[t].pc = "get_dps_data"
    /\ workers' = [workers EXCEPT ![t].pc = "release"]
    /\ UNCHANGED <<store, game, seen, storeLockFrame>>

(* the with block is left and the call returns *)
ReleaseLock(t) ==
    /\ workers[t].pc = "release"
    /\ store' = [store EXCEPT !.lock = None]
    /\ seen' = seen \cup {[method |-> workers[t].method, amount |-> workers[t].amount,
                           timestamp |-> workers[t].timestamp]}
    /\ workers' = [workers EXCEPT ![t] = IdleCall]
    /\ UNCHANGED <<game, storeLockFrame>>

NextStoreLock ==
    \E t \in StoreThreads :
       \/ \E method \in StoreMethods, amount \in StoreAmounts : CallStore(t, method, amount)
       \/ AcquireLock(t)
       \/ InsertDamageEvent(t)
       \/ UpdateDpsStamp(t)
       \/ UpdateDpsEntry(t)
       \/ GetDpsData(t)
       \/ ReleaseLock(t)

SpecStoreLock == InitStoreLock /\ [][NextStoreLock]_vars

(***************************************************************************)
(* SpecSnapshot: save_session_state on the background thread next to the   *)
(* poll loop on the interactive thread.  The poll loop gives a line to     *)
(* parse_line, which writes target_ac and then target_attack_bonus with no *)
(* lock (parser.py 262-277), and then stores the event it got with         *)
(* insert_attack_event, which takes the store lock (storage.py 46).        *)
(* save_session_state takes the store lock and copies the store's          *)
(* containers, then target_ac, then target_attack_bonus, one deepcopy call *)
(* after the other (past_logs_parser.py 224-235).  A step of a thread is   *)
(* one write to, or one copy of, one container.                            *)
(*                                                                         *)
(* seen is history: the contents of the containers at every instant since  *)
(* the lock was taken at which no parse_line call was half done.           *)
(***************************************************************************)
SnapshotLines ==
    {AttackLine("Woo", "Goblin", "hit", 10, 5), AttackLine("Woo", "Goblin", "miss", 10, 5)}

InitSnapshot ==
    /\ parser = LogParser
    /\ pruned = {}
    /\ InitStoreVars
    /\ InitMonitorVars
    /\ service = PastLogsParserService
    /\ workers = <<[pc |-> "acquire", copied |-> SessionContents(DataStore, LogParser)]>>
    /\ ui = [pc |-> "idle", line |-> None, parsed_data |-> NoEvent]

(* The instants recorded: those with the lock held by save_session_state   *)
(* and the poll loop not between the two writes of parse_line.             *)
Observed ==
    IF store'.lock # None /\ ui'.pc # "bonus"
    THEN seen \cup {SessionContents(store', parser')}
    ELSE seen

snapshotFrame == <<pruned, scenario, ignored, dir, monitor, data_queue,
                  queue_processor, tail>>

(* parser.py 262-270, on the interactive thread *)
PollTargetAC(line) ==
    /\ ui.pc = "idle"
    /\ game.events < MaxEvents
    /\ game' = [game EXCEPT !.events = @ + 1]
    /\ parser' = parse_attack_target_ac(parser, line)
    /\ ui' = [ui EXCEPT !.pc = "bonus", !.line = Some(line)]
    /\ UNCHANGED <<store, service, workers, snapshotFrame>>
    /\ seen' = Observed

(* parser.py 272-300: the second write, and the parsed dict is returned *)
PollAttackBonus ==
    /\ ui.pc = "bonus"
    /\ parser' = parse_attack_bonus(parser, Val(ui.line))
    /\ ui' = [ui EXCEPT !.pc = "insert",
                        !.parsed_data = parse_attack(parser, Val(ui.line)).result]
    /\ UNCHANGED <<store, service, workers, game, snapshotFrame>>
    /\ seen' = Observed

(* storage.py 34-55: the event is stored; the call waits for the lock *)
PollInsert ==
    /\ ui.pc = "insert"
    /\ store.lock = None
    /\ store' = ImportParsed(store, ui.parsed_data)
    /\ ui' = [ui EXCEPT !.pc = "idle", !.line = None, !.parsed_data = NoEvent]
    /\ UNCHANGED <<parser, service, workers, game, snapshotFrame>>
    /\ seen' = Observed

(* past_logs_parser.py 224: with self.data_store.lock *)
SaveAcquire ==
    /\ workers[1].pc = "acquire"
    /\ store.lock = None
    /\ store' = [store EXCEPT !.lock = Some(1)]
    /\ workers' = [workers EXCEPT ![1].pc = "store"]
    /\ UNCHANGED <<parser, service, ui, game, snapshotFrame>>
    /\ seen' = Observed

(* past_logs_parser.py 227-231: the store's containers; the store is       *)
(* written under the lock only, so they do not change meanwhile            *)
SaveCopyStore ==
    /\ workers[1].pc = "store"
    /\ workers' = [workers EXCEPT ![1] =
          [pc |-> "target_ac",
           copied |-> [SessionContents(store, parser) EXCEPT
                          !.target_ac = workers[1].copied.target_ac,
                          !.target_attack_bonus = workers[1].copied.target_attack_bonus]]]
    /\ UNCHANGED <<parser, store, service, ui, game, snapshotFrame>>
    /\ seen' = Observed

(* past_logs_parser.py 232-233: copy.deepcopy(self.parser.target_ac), then *)
(* of target_saves, which no line of SnapshotLines writes                  *)
SaveCopyTargetAC ==
    /\ workers[1].pc = "target_ac"
    /\ workers' = [workers EXCEPT ![1].pc = "target_attack_bonus",
                                  ![1].copied.target_ac = parser.target_ac,
                                  ![1].copied.target_saves = parser.target_saves]
    /\ UNCHANGED <<parser, store, service, ui, game, snapshotFrame>>
    /\ seen' = Observed

(* past_logs_parser.py 234-235: copy.deepcopy(self.parser.target_attack_bonus), *)
(* the dict is assigned to session_only_state and the lock is released     *)
SaveCopyAttackBonus ==
    LET copied == [workers[1].copied EXCEPT !.target_attack_bonus = parser.target_attack_bonus]
    IN /\ workers[1].pc = "target_attack_bonus"
       /\ service' = [service EXCEPT !.session_only_state = Some(copied),
                                     !.state_when_saved = Some(copied)]
       /\ workers' = [workers EXCEPT ![1] = [pc |-> "saved", copied |-> copied]]
       /\ store' = [store EXCEPT !.lock = None]
       /\ seen' = seen
       /\ UNCHANGED <<parser, ui, game, snapshotFrame>>

NextSnapshot ==
    \/ \E line \in SnapshotLines : PollTargetAC(line)
    \/ PollAttackBonus
    \/ PollInsert
    \/ SaveAcquire
    \/ SaveCopyStore
    \/ SaveCopyTargetAC
    \/ SaveCopyAttackBonus

SpecSnapshot == InitSnapshot /\ [][NextSnapshot]_vars

(***************************************************************************)
(* SpecMonitor: the tail reader, driven by start_monitoring and            *)
(* read_new_lines calls of the poll loop, next to a game client that       *)
(* appends whole lines to the candidate files and clears them.  Every      *)
(* write of the game gets a later modification time than all before it;    *)
(* files that were there before can have equal times.                      *)
(***************************************************************************)
OldLine == AttackLine("Woo", "Orc", "miss", 10, 5)
MonitorLines == {AttackLine("Woo", "Goblin", "hit", 10, 5), OtherLine}

InitialDirectories ==
    {NoDirectory} \cup
    {[exists |-> TRUE, files |-> [f \in LogFiles |-> IF f = 1 THEN LogFile(1, <<OldLine>>) ELSE b]] :
        b \in {Absent, LogFile(1, <<OldLine>>), LogFile(2, <<OldLine>>)}}

InitMonitor ==
    /\ parser = LogParser
    /\ pruned = {}
    /\ InitStoreVars
    /\ dir \in InitialDirectories
    /\ game = [clock |-> 2, events |-> 0]
    /\ monitor = LogDirectoryMonitor
    /\ data_queue = <<>>
    /\ queue_processor = QueueProcessor
    /\ tail = InitTail
    /\ InitServiceVars

(* Whether the file the monitor has selected is still the active one. *)
StillActive(d) == find_active_log_file(d) = monitor.current_log_file

(* The game appends one line to file f, creating the file (and the         *)
(* directory) when absent.                                                 *)
GameAppend(f, line) ==
    LET old == dir.files[f]
        d1 == [exists |-> TRUE,
               files |-> [dir.files EXCEPT
                            ![f] = LogFile(game.clock + 1, Append(old.content, line))]]
    IN /\ game.events < MaxEvents
       /\ dir' = d1
       /\ game' = [game EXCEPT !.clock = @ + 1, !.events = @ + 1]
       /\ tail' = [tail EXCEPT !.clean = @ /\ StillActive(d1)]
       /\ UNCHANGED <<parserVars, storeVars, serviceVars, monitor, data_queue,
                    queue_processor>>

(* The game clears file f (a restart of the client). *)
GameTruncate(f) ==
    LET d1 == [dir EXCEPT !.files[f] = LogFile(game.clock + 1, <<>>)]
    IN /\ game.events < MaxEvents
       /\ dir.files[f].exists
       /\ dir.files[f].content # <<>>
       /\ dir' = d1
       /\ game' = [game EXCEPT !.clock = @ + 1, !.events = @ + 1]
       /\ tail' = [tail EXCEPT !.clean = @ /\ StillActive(d1)
                                          /\ monitor.current_log_file # Some(f),
                           !.since_poll = IF monitor.current_log_file = Some(f)
                                          THEN "cleared" ELSE @]
       /\ UNCHANGED <<parserVars, storeVars, serviceVars, monitor, data_queue,
                    queue_processor>>

(* The I/O calls of start_monitoring that can raise: the stat of a         *)
(* candidate inside find_active_log_file (monitor.py 47), the stat of the  *)
(* selected file (67).  There is no try around them.                       *)
StartFaults == {"find", "stat"}

(* Whether start_monitoring reaches the call that raises *)
start_reaches(d, fault) ==
    /\ d.exists
    /\ \E f \in LogFiles : d.files[f].exists

(* monitor.py 60-69, when the call named by fault raises: the monitor as   *)
(* the exception leaves it.  The first stat raises before                  *)
(* current_log_file is assigned (65), the second after.                    *)
start_monitoring_raises(m, d, fault) ==
    IF fault = "find" THEN m
    ELSE [m EXCEPT !.current_log_file = find_active_log_file(d)]

StartMonitoring ==
    LET m1 == start_monitoring(monitor, dir)
    IN /\ monitor' = m1
       /\ tail' = IF m1.current_log_file # None
                  THEN [started |-> TRUE, clean |-> TRUE,
                        base |-> Len(dir.files[Val(m1.current_log_file)].content),
                        forwarded |-> <<>>, since_poll |-> "started"]
                  ELSE [InitTail EXCEPT !.since_poll = "started"]
       /\ ui' = [ui EXCEPT !.pc = "idle"]
       /\ UNCHANGED <<parserVars, storeVars, service, workers, dir, game, data_queue,
                    queue_processor>>

(* main_window.py 335-336: a start_monitoring call in which an I/O call    *)
(* raises.  The exception reaches the caller, which does not go on to the  *)
(* poll loop (340).                                                        *)
StartMonitoringRaises(fault) ==
    /\ start_reaches(dir, fault)
    /\ game.events < MaxEvents
    /\ monitor' = start_monitoring_raises(monitor, dir, fault)
    /\ tail' = [InitTail EXCEPT !.since_poll = "started"]
    /\ ui' = [ui EXCEPT !.pc = "raised"]
    /\ game' = [game EXCEPT !.events = @ + 1]
    /\ UNCHANGED <<parserVars, storeVars, service, workers, dir, data_queue,
                 queue_processor>>

ReadNewLines(fault) ==
    LET r == read_new_lines(monitor, parser, dir, fault)
    IN /\ fault # "none" => game.events < MaxEvents
       /\ monitor' = r.monitor
       /\ parser' = r.parser
       /\ pruned' = pruned \cup LostHits(parser, r.parser)
       /\ data_queue' = r.out
       /\ tail' = [tail EXCEPT !.forwarded = IF tail.clean THEN @ \o r.new_lines ELSE @,
                           !.since_poll = IF fault = "none" THEN "nothing" ELSE @]
       /\ game' = IF fault # "none" THEN [game EXCEPT !.events = @ + 1] ELSE game
       /\ UNCHANGED <<storeVars, serviceVars, dir, queue_processor>>

NextMonitor ==
    \/ \E f \in LogFiles, line \in MonitorLines : GameAppend(f, line)
    \/ \E f \in LogFiles : GameTruncate(f)
    \/ StartMonitoring
    \/ \E fault \in StartFaults : StartMonitoringRaises(fault)
    \/ \E fault \in Faults : ReadNewLines(fault)

SpecMonitor == InitMonitor /\ [][NextMonitor]_vars

(***************************************************************************)
(* parse_and_import_file (app/utils.py), with the damage grammar.          *)
(* last_damage_dealt is the local dict target -> last damage event of one  *)
(* call.                                                                   *)
(***************************************************************************)
(* utils.py 186-205: a damage_dealt event *)
import_damage_dealt(st, last_damage_dealt, parsed_data) ==
    LET st1 == update_dps_data(st, parsed_data.attacker, parsed_data.total_damage,
                               parsed_data.timestamp, parsed_data.damage_types)
    IN [store |-> insert_damage_events(st1, DOMAIN parsed_data.damage_types, parsed_data),
        last_damage_dealt |->
            [t \in DOMAIN last_damage_dealt \cup {parsed_data.target} |->
                IF t = parsed_data.target
                THEN [damage_types |-> parsed_data.damage_types,
                      timestamp |-> parsed_data.timestamp,
                      attacker |-> parsed_data.attacker]
                ELSE last_damage_dealt[t]]]

(* utils.py 208-220: an immunity event *)
import_immunity(st, last_damage_dealt, parsed_data) ==
    [store |->
        IF /\ parsed_data.target \in DOMAIN last_damage_dealt
           /\ parsed_data.damage_type
                 \in DOMAIN last_damage_dealt[parsed_data.target].damage_types
        THEN record_immunity(st, parsed_data.target, parsed_data.damage_type,
                 parsed_data.immunity_points,
                 last_damage_dealt[parsed_data.target].damage_types[parsed_data.damage_type])
        ELSE st,
     last_damage_dealt |-> last_damage_dealt]

(* utils.py 184-249: the dispatch on parsed_data['type'] *)
ImportEvent(st, last_damage_dealt, parsed_data) ==
    IF parsed_data.type = "damage_dealt"
    THEN import_damage_dealt(st, last_damage_dealt, parsed_data)
    ELSE IF parsed_data.type = "immunity"
    THEN import_immunity(st, last_damage_dealt, parsed_data)
    ELSE [store |-> ImportParsed(st, parsed_data), last_damage_dealt |-> last_damage_dealt]

(* past_logs_parser.py 149-151: the bound of a file, from the dict of      *)
(* positions the thread was given (an empty dict is falsy)                 *)
max_line_of(positions, log_file) ==
    IF positions # None /\ DOMAIN Val(positions) # {} /\ log_file \in DOMAIN Val(positions)
    THEN Some(Val(positions)[log_file])
    ELSE None

(* A bound test that stops at the line numbered max_line itself. *)
past_max_line_exclusive(lines_processed, max_line) ==
    max_line # None /\ lines_processed >= Val(max_line)

(* utils.py 178: lines_processed counts the line in hand *)
past_max_line(lines_processed, max_line) ==
    max_line # None /\ lines_processed > Val(max_line)

(* A loop that gives up at the first line that parses to no event. *)
RECURSIVE ImportLines_strict(_, _, _, _, _, _)
ImportLines_strict(p, st, lines, lines_processed, max_line, last_damage_dealt) ==
    IF lines = <<>>
    THEN [parser |-> p, store |-> st, lines_processed |-> lines_processed]
    ELSE IF past_max_line(lines_processed + 1, max_line)
    THEN [parser |-> p, store |-> st, lines_processed |-> lines_processed]
    ELSE LET r == parse_line(p, Head(lines))
             e == ImportEvent(st, last_damage_dealt, r.result)
         IN IF r.result = NoEvent
            THEN [parser |-> p, store |-> st, lines_processed |-> lines_processed + 1]
            ELSE ImportLines_strict(r.parser, e.store, Tail(lines),
                                    lines_processed + 1, max_line, e.last_damage_dealt)

(* utils.py 171-249: the loop over the lines, from a count of lines done *)
RECURSIVE ImportLines(_, _, _, _, _, _)
ImportLines(p, st, lines, lines_processed, max_line, last_damage_dealt) ==
    IF lines = <<>>
    THEN [parser |-> p, store |-> st, lines_processed |-> lines_processed]
    ELSE IF past_max_line(lines_processed + 1, max_line)
    THEN [parser |-> p, store |-> st, lines_processed |-> lines_processed]
    ELSE LET r == parse_line(p, Head(lines))
             e == ImportEvent(st, last_damage_dealt, r.result)
         IN ImportLines(r.parser, e.store, Tail(lines),
                        lines_processed + 1, max_line, e.last_damage_dealt)

(* A parse_and_import_file that starts from an emptied store. *)
parse_and_import_file_clearing(file, p, st, max_line, opens) ==
    IF opens
    THEN LET r == ImportLines(p, clear_all_data(st), file.content, 0, max_line, EmptyDict)
         IN [parser |-> r.parser, store |-> r.store,
             success |-> TRUE, lines_processed |-> r.lines_processed]
    ELSE [parser |-> p, store |-> st, success |-> FALSE, lines_processed |-> 0]

(* utils.py 135-261.  opens is whether the open at 161 succeeds; when it   *)
(* raises, the except at 256 returns the failure.                          *)
parse_and_import_file(file, p, st, max_line, opens) ==
    IF opens
    THEN LET r == ImportLines(p, st, file.content, 0, max_line, EmptyDict)
         IN [parser |-> r.parser, store |-> r.store,
             success |-> TRUE, lines_processed |-> r.lines_processed]
    ELSE [parser |-> p, store |-> st, success |-> FALSE, lines_processed |-> 0]

(***************************************************************************)
(* SpecImport: parse_and_import_file called on one file of a directory,    *)
(* with and without a bound, into a store that holds a session or nothing. *)
(* Line k of the file carries k: an attack line rolls 10 + k, a damage or  *)
(* immunity line has timestamp k.                                          *)
(***************************************************************************)
LineKinds == {"attack", "damage", "immunity", "other"}

FileLine(kind, k) ==
    IF kind = "attack" THEN AttackLine("Woo", "Goblin", "hit", 10 + k, 5)
    ELSE IF kind = "damage"
    THEN DamageLine("Woo", "Goblin", 50, [d \in {"Fire", "Physical"} |->
                                             IF d = "Fire" THEN 20 ELSE 30], k)
    ELSE IF kind = "immunity" THEN ImmunityLine("Goblin", 10, "Fire", k)
    ELSE OtherLine

FileContents ==
    {[k \in DOMAIN kinds |-> FileLine(kinds[k], k)] :
        kinds \in UNION {[1..n -> LineKinds] : n \in 0..MaxFileLines}}

(* The parser and the store of a session: an attack, a damage line and an  *)
(* immunity line were ingested with immunity parsing on.                   *)
ImportSession ==
    ImportLines([LogParser EXCEPT !.parse_immunity = TRUE], DataStore,
                <<AttackLine("Woo", "Orc", "hit", 10, 5),
                  DamageLine("Woo", "Orc", 40, [d \in {"Fire"} |-> 40], 2),
                  ImmunityLine("Orc", 5, "Fire", 2)>>, 0, None, EmptyDict)

(* The monitoring_start_position dicts a caller passes: none, a bound for  *)
(* the file, a bound for another file only.                                *)
ImportPositions ==
    {None, Some([f \in {2} |-> 1])}
        \cup {Some([f \in {1} |-> n]) : n \in 0..MaxFileLines}

InitImport ==
    /\ \E content \in FileContents :
          dir = [exists |-> TRUE,
                 files |-> [f \in LogFiles |-> IF f = 1 THEN LogFile(1, content) ELSE Absent]]
    /\ \E on \in BOOLEAN :
          \/ parser = [LogParser EXCEPT !.parse_immunity = on] /\ store = DataStore
          \/ /\ parser = [ImportSession.parser EXCEPT !.parse_immunity = on]
             /\ store = ImportSession.store
    /\ pruned = {}
    /\ seen = {}
    /\ scenario = 0
    /\ ignored = {}
    /\ game = [clock |-> 0, events |-> 0]
    /\ monitor = LogDirectoryMonitor
    /\ data_queue = <<>>
    /\ queue_processor = QueueProcessor
    /\ tail = InitTail
    /\ service = PastLogsParserService
    /\ workers = <<>>
    /\ ui = [pc |-> "idle"]

importFrame == <<pruned, seen, scenario, ignored, dir, monitor, data_queue, queue_processor,
                 tail, service, workers>>

(* Whether the open of a file of the directory succeeds *)
OpenOutcomes == {TRUE, FALSE}

(* past_logs_parser.py 148-176: the bound of the file, and the call; ui    *)
(* keeps the arguments, the result and the store as it was before.         *)
ImportFile(positions, opens) ==
    LET max_line == max_line_of(positions, 1)
        result == parse_and_import_file(dir.files[1], parser, store, max_line, opens)
    IN /\ game.events < MaxImports
       /\ parser' = result.parser
       /\ store' = result.store
       /\ game' = [game EXCEPT !.events = @ + 1]
       /\ ui' = [pc |-> "imported", max_line |-> max_line, opens |-> opens,
                 success |-> result.success, lines_processed |-> result.lines_processed,
                 before |-> store, parser_before |-> parser]
       /\ UNCHANGED importFrame

NextImport ==
    \E positions \in ImportPositions, opens \in OpenOutcomes : ImportFile(positions, opens)

SpecImport == InitImport /\ [][NextImport]_vars

(***************************************************************************)
(* SpecUnmatched: parse_and_import_file on files in which lines that match *)
(* no grammar (other text, blank lines, and immunity lines for a parser    *)
(* built without immunity parsing) stand between the lines that do.        *)
(***************************************************************************)
UnmatchedKinds == LineKinds \cup {"blank"}

UnmatchedContents ==
    {[k \in DOMAIN kinds |-> IF kinds[k] = "blank" THEN BlankLine
                             ELSE FileLine(kinds[k], k)] :
        kinds \in UNION {[1..n -> UnmatchedKinds] : n \in 0..MaxFileLines}}

InitUnmatched ==
    /\ \E content \in UnmatchedContents :
          dir = [exists |-> TRUE,
                 files |-> [f \in LogFiles |-> IF f = 1 THEN LogFile(1, content) ELSE Absent]]
    /\ \E on \in BOOLEAN :
          \/ parser = [LogParser EXCEPT !.parse_immunity = on] /\ store = DataStore
          \/ /\ parser = [ImportSession.parser EXCEPT !.parse_immunity = on]
             /\ store = ImportSession.store
    /\ pruned = {}
    /\ seen = {}
    /\ scenario = 0
    /\ ignored = {}
    /\ game = [clock |-> 0, events |-> 0]
    /\ monitor = LogDirectoryMonitor
    /\ data_queue = <<>>
    /\ queue_processor = QueueProcessor
    /\ tail = InitTail
    /\ service = PastLogsParserService
    /\ workers = <<>>
    /\ ui = [pc |-> "idle"]

NextUnmatched ==
    \E opens \in OpenOutcomes : ImportFile(None, opens)

SpecUnmatched == InitUnmatched /\ [][NextUnmatched]_vars

(***************************************************************************)
(* SpecParserRace: parse_line on the shared LogParser from the poll loop   *)
(* (thread 1, monitor.py 132) and from the background worker (thread 2,    *)
(* past_logs_parser.py 169-176, through parse_and_import_file) at the same *)
(* time.  No lock is taken around the registries (parser.py 255-277) nor   *)
(* inside EnemyAC (models.py 72-101), so the threads interleave between    *)
(* the steps below: the membership test, the creation of the tracker, the  *)
(* lookup and test of record_hit or record_miss, and each write.  A thread *)
(* that has looked the tracker up works on that object: when the other     *)
(* thread then puts a fresh tracker under the name, the object is no       *)
(* longer in the registry and obj holds it.                                *)
(*                                                                         *)
(* ui is history: how many trackers were created for the name, and the     *)
(* lines whose parse_line call has returned.                               *)
(***************************************************************************)
RaceThreads == {1, 2}
RaceTarget == "Goblin"
RaceLines ==
    {AttackLine("Woo", RaceTarget, "hit", 7, 5),
     AttackLine("Woo", RaceTarget, "hit", 13, 5),
     AttackLine("Woo", RaceTarget, "miss", 10, 5)}

IdleParse == [pc |-> "idle", line |-> None, kept |-> <<>>, obj |-> None]

InitParserRace ==
    /\ parser = LogParser
    /\ pruned = {}
    /\ InitStoreVars
    /\ InitMonitorVars
    /\ service = PastLogsParserService
    /\ workers = <<IdleParse, IdleParse>>
    /\ ui = [pc |-> "race", created |-> 0, returned |-> <<>>]

raceFrame == <<pruned, storeVars, dir, monitor, data_queue, queue_processor, tail, service>>

(* The tracker thread th works on, and the writing of it *)
TrackerOf(th) ==
    IF workers[th].obj # None THEN Val(workers[th].obj) ELSE parser.target_ac[RaceTarget]

WriteTracker(th, ac) ==
    IF workers[th].obj # None
    THEN /\ workers' = [workers EXCEPT ![th].obj = Some(ac), ![th].pc = "return"]
         /\ parser' = parser
    ELSE /\ workers' = [workers EXCEPT ![th].pc = "return"]
         /\ parser' = [parser EXCEPT !.target_ac[RaceTarget] = ac]

(* parser.py 262 (264 for a miss): if target not in self.target_ac *)
RaceMembership(th, line) ==
    /\ workers[th].pc = "idle"
    /\ game.events < MaxRaceCalls
    /\ game' = [game EXCEPT !.events = @ + 1]
    /\ workers' = [workers EXCEPT ![th] =
          [IdleParse EXCEPT !.line = Some(line),
                            !.pc = IF RaceTarget \in DOMAIN parser.target_ac
                                   THEN "lookup" ELSE "create"]]
    /\ UNCHANGED <<parser, ui, raceFrame>>

(* parser.py 263: self.target_ac[target] = EnemyAC(name=target).  A thread *)
(* that holds the tracker this replaces keeps it as its own object.        *)
RaceCreate(th) ==
    /\ workers[th].pc = "create"
    /\ parser' = [parser EXCEPT !.target_ac =
          [t \in DOMAIN @ \cup {RaceTarget} |->
              IF t = RaceTarget THEN EnemyAC(RaceTarget) ELSE @[t]]]
    /\ workers' = [o \in DOMAIN workers |->
          IF o = th THEN [workers[o] EXCEPT !.pc = "lookup"]
          ELSE IF workers[o].pc \in {"append", "max_miss", "filter", "hits"}
                  /\ workers[o].obj = None
          THEN [workers[o] EXCEPT !.obj = Some(parser.target_ac[RaceTarget])]
          ELSE workers[o]]
    /\ ui' = [ui EXCEPT !.created = @ + 1]
    /\ UNCHANGED <<game, raceFrame>>

(* parser.py 265-270: self.target_ac[target].record_hit(total) or          *)
(* .record_miss(total, was_nat1), up to the test at models.py 82 or 97     *)
RaceLookup(th) ==
    LET line == Val(workers[th].line)
        ac == parser.target_ac[RaceTarget]
        above == ac.max_miss = None \/ Val(line.total) > Val(ac.max_miss)
    IN /\ workers[th].pc = "lookup"
       /\ workers' = [workers EXCEPT ![th].pc =
             IF ~above THEN "return"
             ELSE IF is_hit(line.outcome) THEN "append" ELSE "max_miss"]
       /\ UNCHANGED <<parser, ui, game, raceFrame>>

(* models.py 83: self._hits.append(total) *)
RaceAppend(th) ==
    /\ workers[th].pc = "append"
    /\ WriteTracker(th, [TrackerOf(th) EXCEPT !.hits = Append(@, Val(Val(workers[th].line).total))])
    /\ UNCHANGED <<ui, game, raceFrame>>

(* models.py 98: self.max_miss = total *)
RaceMaxMiss(th) ==
    LET ac == [TrackerOf(th) EXCEPT !.max_miss = Some(Val(Val(workers[th].line).total))]
    IN /\ workers[th].pc = "max_miss"
       /\ IF workers[th].obj # None
          THEN /\ workers' = [workers EXCEPT ![th].obj = Some(ac), ![th].pc = "filter"]
               /\ parser' = parser
          ELSE /\ workers' = [workers EXCEPT ![th].pc = "filter"]
               /\ parser' = [parser EXCEPT !.target_ac[RaceTarget] = ac]
       /\ UNCHANGED <<ui, game, raceFrame>>

(* models.py 101, right-hand side: [h for h in self._hits if h > self.max_miss] *)
RaceFilter(th) ==
    LET ac == TrackerOf(th)
    IN /\ workers[th].pc = "filter"
       /\ workers' = [workers EXCEPT ![th].pc = "hits",
                                     ![th].kept = SelectSeq(ac.hits,
                                                     LAMBDA h : h > Val(ac.max_miss))]
       /\ UNCHANGED <<parser, ui, game, raceFrame>>

(* models.py 101, the assignment: self._hits = ... *)
RaceHits(th) ==
    /\ workers[th].pc = "hits"
    /\ WriteTracker(th, [TrackerOf(th) EXCEPT !.hits = workers[th].kept])
    /\ UNCHANGED <<ui, game, raceFrame>>

(* parse_line returns *)
RaceReturn(th) ==
    /\ workers[th].pc = "return"
    /\ ui' = [ui EXCEPT !.returned = Append(@, Val(workers[th].line))]
    /\ workers' = [workers EXCEPT ![th] = IdleParse]
    /\ UNCHANGED <<parser, game, raceFrame>>

NextParserRace ==
    \E th \in RaceThreads :
       \/ \E line \in RaceLines : RaceMembership(th, line)
       \/ RaceCreate(th)
       \/ RaceLookup(th)
       \/ RaceAppend(th)
       \/ RaceMaxMiss(th)
       \/ RaceFilter(th)
       \/ RaceHits(th)
       \/ RaceReturn(th)

SpecParserRace == InitParserRace /\ [][NextParserRace]_vars

(***************************************************************************)
(* SpecService: the bulk-ingestion service.  The interactive side calls    *)
(* start_parsing and stop_parsing; every thread it has started runs        *)
(* _parse_logs_thread.  The threads and the interactive side interleave    *)
(* between the steps below: a thread reads and writes is_parsing without   *)
(* a lock, and one file is ingested in one step.  The directory holds the  *)
(* files of earlier sessions and does not change.                          *)
(***************************************************************************)
SessionLine == AttackLine("Woo", "Orc", "hit", 10, 5)

PastDirectory ==
    [exists |-> TRUE,
     files |-> [f \in LogFiles |->
                  IF f = 1 THEN LogFile(1, <<AttackLine("Woo", "Goblin", "hit", 10, 5),
                                             AttackLine("Woo", "Goblin", "hit", 10, 5)>>)
                  ELSE LogFile(2, <<AttackLine("Woo", "Goblin", "hit", 10, 5),
                                    AttackLine("Woo", "Goblin", "hit", 10, 5)>>)]]

(* The parser and the store of a session in which one line was ingested. *)
Session == ImportLines(LogParser, DataStore, <<SessionLine>>, 0, None, EmptyDict)

(* The arguments start_parsing is given for monitoring_start_position *)
StartPositions == {None}

InitService ==
    /\ \/ dir = NoDirectory /\ parser = LogParser /\ store = DataStore
       \/ dir = PastDirectory /\ parser = Session.parser /\ store = Session.store
    /\ pruned = {}
    /\ seen = {}
    /\ scenario = 0
    /\ ignored = {}
    /\ game = [clock |-> 2, events |-> 0]
    /\ monitor = LogDirectoryMonitor
    /\ data_queue = <<>>
    /\ queue_processor = QueueProcessor
    /\ tail = InitTail
    /\ InitServiceVars

serviceFrame == <<pruned, seen, scenario, ignored, monitorVars>>

(* past_logs_parser.py 68-73: the test of the flag and, when it is set,    *)
(* the return of False; else its setting                                   *)
StartParsing(monitoring_start_position) ==
    /\ ui.pc = "idle"
    /\ IF service.is_parsing
       THEN UNCHANGED <<service, workers, ui>>
       ELSE /\ Len(workers) < MaxStarts
            /\ service' = [service EXCEPT
                             !.is_parsing = TRUE,
                             !.monitoring_start_position = monitoring_start_position]
            /\ ui' = [pc |-> "start_thread",
                      monitoring_start_position |-> monitoring_start_position]
            /\ UNCHANGED workers
    /\ UNCHANGED <<parser, store, serviceFrame>>

(* past_logs_parser.py 76-83: the thread is created and started *)
StartThread ==
    /\ ui.pc = "start_thread"
    /\ workers' = Append(workers, NewThread(ui.monitoring_start_position))
    /\ service' = [service EXCEPT !.parse_thread = Some(Len(workers) + 1)]
    /\ ui' = [ui EXCEPT !.pc = "idle"]
    /\ UNCHANGED <<parser, store, serviceFrame>>

(* past_logs_parser.py 85-98.  join(timeout) returns when the thread has   *)
(* ended or when the timeout has passed, whichever is first: a thread in   *)
(* the middle of a file can outlast it, so stop_parsing returns with the   *)
(* thread ended or still running.                                          *)
StopParsing ==
    /\ ui.pc = "idle"
    /\ service' = IF service.is_parsing
                  THEN [service EXCEPT !.is_parsing = FALSE]
                  ELSE service
    /\ workers' = [w \in 1..Len(workers) |->
                     IF service.is_parsing /\ workers[w].pc # "done"
                     THEN [workers[w] EXCEPT !.stop_requested = TRUE]
                     ELSE workers[w]]
    /\ UNCHANGED <<ui, parser, store, serviceFrame>>

(* past_logs_parser.py 237-257, called as the interactive side calls it    *)
(* when "Include Past Logs" is turned off (ui/main_window.py 190-193):     *)
(* only when past logs are marked as included                              *)
RestoreSessionState ==
    LET r == restore_session_state(service, store, parser)
    IN /\ ui.pc = "idle"
       /\ service.past_logs_included
       /\ service' = r.service
       /\ store' = r.store
       /\ parser' = r.parser
       /\ UNCHANGED <<ui, workers, serviceFrame>>

(* sorted(log_dir.glob('nwclientLog[1-4].txt')) *)
RECURSIVE SortedFiles(_, _)
SortedFiles(d, from) ==
    IF from \notin LogFiles THEN <<>>
    ELSE (IF d.exists /\ d.files[from].exists THEN <<from>> ELSE <<>>)
            \o SortedFiles(d, from + 1)

(* past_logs_parser.py 120-141: the session state is saved when there is   *)
(* data and no saved state yet, and the directory is listed                *)
ThreadBegin(w) ==
    LET saves == service.session_only_state = None /\ has_data(store)
        log_files == SortedFiles(dir, 1)
    IN /\ workers[w].pc = "begin"
       /\ service' = IF saves THEN save_session_state(service, store, parser) ELSE service
       /\ workers' = [workers EXCEPT ![w] =
             IF log_files = <<>>
             THEN [@ EXCEPT !.pc = "finally", !.ending = "no files"]
             ELSE [@ EXCEPT !.pc = "loop", !.log_files = log_files,
                            !.n_files = Len(log_files)]]
       /\ UNCHANGED <<ui, parser, store, serviceFrame>>

(* past_logs_parser.py 143-146 and 188-190: the head of the loop.  With a  *)
(* file left, the flag is tested: unset, the loop is left by the break;    *)
(* with none left the loop ends and the test at 188 follows at once.       *)
ThreadNextFile(w) ==
    /\ workers[w].pc = "loop"
    /\ IF workers[w].log_files # <<>>
       THEN /\ workers' = [workers EXCEPT ![w] =
                  IF ~service.is_parsing
                  THEN [@ EXCEPT !.pc = "after_loop", !.ending = "cancelled"]
                  ELSE [@ EXCEPT !.pc = "parse"]]
            /\ UNCHANGED service
       ELSE IF service.is_parsing
       THEN /\ service' = mark_past_logs_included(service)
            /\ workers' = [workers EXCEPT ![w] =
                             [@ EXCEPT !.pc = "finally", !.ending = "completed"]]
       ELSE /\ workers' = [workers EXCEPT ![w].pc = "finally"]
            /\ UNCHANGED service
    /\ UNCHANGED <<ui, parser, store, serviceFrame>>

(* A thread that gives up the run at the first file that fails. *)
after_file_abort(thread, result) ==
    IF result.success
    THEN [thread EXCEPT !.pc = "loop",
                        !.log_files = Tail(@),
                        !.total_lines = @ + result.lines_processed,
                        !.files_processed = @ + 1]
    ELSE [thread EXCEPT !.pc = "finally", !.ending = "raised"]

(* past_logs_parser.py 178-186: the result of one file.  A failure is      *)
(* reported with on_log("Error in <file>: ...") and the loop goes on.      *)
after_file(thread, result) ==
    IF result.success
    THEN [thread EXCEPT !.pc = "loop",
                        !.log_files = Tail(@),
                        !.total_lines = @ + result.lines_processed,
                        !.files_processed = @ + 1]
    ELSE [thread EXCEPT !.pc = "loop",
                        !.log_files = Tail(@),
                        !.reported = Append(@, Head(thread.log_files))]

(* past_logs_parser.py 148-186: one file *)
ThreadParseFile(w, opens) ==
    LET thread == workers[w]
        log_file == Head(thread.log_files)
        positions == thread.monitoring_start_position
        max_line == max_line_of(positions, log_file)
        result == parse_and_import_file(dir.files[log_file], parser, store, max_line, opens)
    IN /\ thread.pc = "parse"
       /\ parser' = result.parser
       /\ store' = result.store
       /\ service' = WriteThrough(service, result.store, result.parser)
       /\ pruned' = pruned \cup LostHits(parser, result.parser)
       /\ workers' = [workers EXCEPT ![w] =
             after_file([thread EXCEPT !.failures = IF result.success THEN @ ELSE @ + 1],
                        result)]
       /\ UNCHANGED <<ui, seen, scenario, ignored, monitorVars>>

(* past_logs_parser.py 188-190, after the break *)
ThreadAfterLoop(w) ==
    /\ workers[w].pc = "after_loop"
    /\ IF service.is_parsing
       THEN /\ service' = mark_past_logs_included(service)
            /\ workers' = [workers EXCEPT ![w] =
                             [@ EXCEPT !.pc = "finally", !.ending = "completed"]]
       ELSE /\ workers' = [workers EXCEPT ![w].pc = "finally"]
            /\ UNCHANGED service
    /\ UNCHANGED <<ui, parser, store, serviceFrame>>

(* past_logs_parser.py 192-193: a call inside the try raises (saving the  *)
(* state, listing the directory, a callback in the per-file loop) and the  *)
(* except clause reports it                                                *)
ThreadRaises(w) ==
    /\ workers[w].pc \in {"begin", "parse"}
    /\ workers' = [workers EXCEPT ![w] =
                     [@ EXCEPT !.pc = "finally", !.ending = "raised"]]
    /\ UNCHANGED <<service, ui, parser, store, serviceFrame>>

(* past_logs_parser.py 194-196 *)
ThreadFinally(w) ==
    /\ workers[w].pc = "finally"
    /\ service' = finally_clear_flag(service)
    /\ workers' = [workers EXCEPT ![w].pc = "complete"]
    /\ UNCHANGED <<ui, parser, store, serviceFrame>>

(* past_logs_parser.py 198: on_complete(), and the thread ends; its        *)
(* arguments and locals are gone                                           *)
ThreadOnComplete(w) ==
    /\ workers[w].pc = "complete"
    /\ workers' = [workers EXCEPT ![w] =
                     [NewThread(None) EXCEPT !.pc = "done",
                                             !.ending = workers[w].ending,
                                             !.reported = workers[w].reported,
                                             !.completions = workers[w].completions + 1]]
    /\ UNCHANGED <<service, ui, parser, store, serviceFrame>>

(* A step of thread w of _parse_logs_thread *)
ThreadStep(w) ==
    /\ w \in 1..Len(workers)
    /\ \/ ThreadBegin(w)
       \/ ThreadNextFile(w)
       \/ \E opens \in OpenOutcomes : ThreadParseFile(w, opens)
       \/ ThreadAfterLoop(w)
       \/ ThreadRaises(w)
       \/ ThreadFinally(w)
       \/ ThreadOnComplete(w)

NextService ==
    \/ \E positions \in StartPositions : StartParsing(positions)
    \/ StartThread
    \/ StopParsing
    \/ RestoreSessionState
    \/ \E w \in 1..MaxStarts : ThreadStep(w)

SpecService == InitService /\ [][NextService]_vars

(* The scheduler does not stop running the threads while one can take a    *)
(* step.                                                                   *)
FairSpecService == SpecService /\ WF_vars(\E w \in 1..MaxStarts : ThreadStep(w))

(***************************************************************************)
(* SpecToggle: the "Include Past Logs" switch of the main window           *)
(* (ui/main_window.py 185-193), in a session in which nothing or one line  *)
(* has been ingested and monitoring is off.  Turning the switch on starts  *)
(* a thread of _parse_logs_thread and disables the switch; the completion  *)
(* handler enables it again; turning it off restores the session-only      *)
(* view when past logs are marked as included.  ui.at_start is history:    *)
(* the contents of the store and the registries when the switch was last   *)
(* turned on; ui.debug is the last line of the debug console.              *)
(***************************************************************************)
NoContents == SessionContents(DataStore, LogParser)

InitToggle ==
    /\ dir = PastDirectory
    /\ \/ parser = LogParser /\ store = DataStore
       \/ parser = Session.parser /\ store = Session.store
    /\ pruned = {}
    /\ seen = {}
    /\ scenario = 0
    /\ ignored = {}
    /\ game = [clock |-> 2, events |-> 0]
    /\ monitor = LogDirectoryMonitor
    /\ data_queue = <<>>
    /\ queue_processor = QueueProcessor
    /\ tail = InitTail
    /\ service = PastLogsParserService
    /\ workers = <<>>
    /\ ui = [pc |-> "idle", parse_past_logs_var |-> FALSE, enabled |-> TRUE,
             at_start |-> None, debug |-> ""]

(* ui/main_window.py 187-189 and 195-249, with start_parsing              *)
(* (past_logs_parser.py 68-83): monitoring is off, so the positions are    *)
(* None (212-215); the switch is disabled (218)                            *)
ToggleOn ==
    /\ ui.enabled
    /\ ~ui.parse_past_logs_var
    /\ ~service.is_parsing
    /\ Len(workers) < MaxStarts
    /\ service' = [service EXCEPT !.is_parsing = TRUE,
                                  !.monitoring_start_position = None,
                                  !.parse_thread = Some(Len(workers) + 1)]
    /\ workers' = Append(workers, NewThread(None))
    /\ ui' = [ui EXCEPT !.parse_past_logs_var = TRUE,
                        !.enabled = FALSE,
                        !.at_start = Some(SessionContents(store, parser)),
                        !.debug = "Starting background parsing of past logs"]
    /\ UNCHANGED <<parser, store, serviceFrame>>

(* ui/main_window.py 298-318, scheduled by on_complete (227-230): the      *)
(* switch stays on and is enabled again                                    *)
OnParsingComplete ==
    /\ ~ui.enabled
    /\ workers # <<>>
    /\ workers[Len(workers)].pc = "done"
    /\ ui' = [ui EXCEPT !.enabled = TRUE,
                        !.debug = "Past logs successfully included in view"]
    /\ UNCHANGED <<service, workers, parser, store, serviceFrame>>

(* ui/main_window.py 190-193 and 251-262: restore_session_only_view is     *)
(* called when past logs are marked as included                            *)
ToggleOff ==
    LET r == restore_session_state(service, store, parser)
    IN /\ ui.enabled
       /\ ui.parse_past_logs_var
       /\ IF service.past_logs_included
          THEN /\ service' = r.service
               /\ store' = r.store
               /\ parser' = r.parser
               /\ ui' = [ui EXCEPT !.parse_past_logs_var = FALSE,
                                   !.debug = "Session-only view restored"]
          ELSE /\ ui' = [ui EXCEPT !.parse_past_logs_var = FALSE]
               /\ UNCHANGED <<service, store, parser>>
       /\ UNCHANGED <<workers, serviceFrame>>

NextToggle ==
    \/ ToggleOn
    \/ OnParsingComplete
    \/ ToggleOff
    \/ \E w \in 1..MaxStarts : ThreadStep(w)

SpecToggle == InitToggle /\ [][NextToggle]_vars

(***************************************************************************)
(* Properties of the defense trackers                                      *)
(***************************************************************************)
ACView(p, t) ==
    IF t \in DOMAIN p.target_ac
    THEN [max_miss |-> p.target_ac[t].max_miss, hits |-> p.target_ac[t].hits]
    ELSE [max_miss |-> None, hits |-> <<>>]

(* C1: in every tracker, every retained hit total is strictly greater than  *)
(* the current maximum miss total; so a miss that raises the maximum has    *)
(* left no retained hit less than or equal to the new maximum.              *)
C1_HitsAboveMaxMiss ==
    \A t \in DOMAIN parser.target_ac :
        LET ac == parser.target_ac[t]
        IN ac.max_miss # None =>
              \A i \in 1..Len(ac.hits) : ac.hits[i] > Val(ac.max_miss)

(* C1 witness: a tracker that a raising miss has pruned and that holds a    *)
(* maximum miss and retained hits.                                          *)
C1_Witness ==
    \E t \in pruned :
        /\ parser.target_ac[t].max_miss # None
        /\ parser.target_ac[t].hits # <<>>

(* The attack lines that carry no information about the threshold: a       *)
(* natural 1, a natural 20, or a concealment "attacker miss chance" miss.  *)
NoInfoLines ==
    {l \in LogLines :
        /\ l.kind = "attack"
        /\ l.roll # None
        /\ \/ Val(l.roll) = 1
           \/ Val(l.roll) = 20
           \/ Contains(l.outcome, "attacker miss chance")}

(* C2: parse_line on a natural-1, natural-20 or concealment-miss attack     *)
(* line leaves the target's maximum miss and retained hits as they were.    *)
C2_NoInfoLinesKeepTracker ==
    [][\A l \in NoInfoLines :
          parser' = parse_line(parser, l).parser
              => ACView(parser', l.target) = ACView(parser, l.target)]_vars

(***************************************************************************)
(* Properties of the DPS aggregation                                       *)
(***************************************************************************)
PerCharacter(st) == get_dps_data(st, "per_character", None)

(* The entry of character c in a list get_dps_data returned. *)
EntryOf(list, c) == list[CHOOSE i \in 1..Len(list) : list[i].character = c]

HasEntry(list, c) == \E i \in 1..Len(list) : list[i].character = c

(* C4: once A has dealt 100 at T0 and 100 at T0+5 and B then 200 at T0+10   *)
(* and 200 at T0+15, per-character get_dps_data reports A with elapsed time *)
(* 5 s and DPS 40, as it did before B acted.                                *)
C4_OthersLeaveDpsUnchanged ==
    scenario = Len(DpsScenario) =>
        /\ HasEntry(PerCharacter(store), "CharacterA")
        /\ LET e == EntryOf(PerCharacter(store), "CharacterA")
           IN /\ e.time_seconds = 5
              /\ e.dps.num = 40 * e.dps.den

SeenTimes == {p[2] : p \in seen}
SeenTimesOf(c) == {p[2] : p \in {q \in seen : q[1] = c}}

(* C5, the elapsed time: per-character get_dps_data lists every character   *)
(* that dealt damage, with elapsed time = the latest timestamp of any       *)
(* character's damage minus the earliest timestamp of its own damage, and   *)
(* rate = total damage over that time floored at 1.                         *)
C5_Elapsed ==
    LET list == PerCharacter(store)
    IN /\ {list[i].character : i \in 1..Len(list)} = {p[1] : p \in seen}
       /\ \A i \in 1..Len(list) :
             LET elapsed == SetMax(SeenTimes) - SetMin(SeenTimesOf(list[i].character))
             IN /\ list[i].time_seconds = elapsed
                /\ list[i].dps.den = Max2(elapsed, 1)
                /\ list[i].dps.num = list[i].total_damage

(* C5, the rate: when another character's damage advances the global last   *)
(* timestamp and X dealt nothing, X's rate does not rise, and it falls when *)
(* X's floored elapsed time grows.                                          *)
C5_RateFalls ==
    [][\A x \in DOMAIN store.dps_data :
          (/\ store'.dps_data[x] = store.dps_data[x]
           /\ Val(store'.last_damage_timestamp) > Val(store.last_damage_timestamp))
          => LET before == EntryOf(PerCharacter(store), x)
                 after == EntryOf(PerCharacter(store'), x)
             IN /\ ~RateGreater(after.dps, before.dps)
                /\ after.time_seconds > before.time_seconds
                /\ (after.dps.den > before.dps.den
                       => RateGreater(before.dps, after.dps))]_vars

(* C5: in per-character mode the elapsed time of X is the global            *)
(* last-damage timestamp minus X's own first-damage timestamp, so X's rate  *)
(* keeps decreasing while other characters deal later damage.               *)
C5_ElapsedIsGlobalLastMinusOwnFirst == []C5_Elapsed /\ C5_RateFalls

(* C5 witness: the scenario has run, and A, who stopped at T0+5, is         *)
(* reported with the 15 s up to B's last damage.                            *)
C5_Witness ==
    /\ scenario = Len(DpsScenario)
    /\ EntryOf(PerCharacter(store), "CharacterA").time_seconds = 15
    /\ EntryOf(PerCharacter(store), "CharacterB").time_seconds = 5

(***************************************************************************)
(* Properties of the immunity records                                      *)
(***************************************************************************)
(* C3: record_immunity on a sample (immunity, damage) for a target and a    *)
(* damage type sets that record's max_damage and max_immunity to the        *)
(* sample's pair when the damage is strictly greater than the stored        *)
(* max_damage, and leaves both as they were when it is not, whatever the    *)
(* immunity; every other record keeps both values.                          *)
C3_ImmunityCoupled ==
    [][\A t \in ImmunityTargets, d \in ImmunityTypes,
          i \in ImmunityPoints, dmg \in DamageDealt :
          store' = record_immunity(store, t, d, i, dmg) =>
             /\ LET old == get_immunity_for_target_and_type(store, t, d)
                    new == get_immunity_for_target_and_type(store', t, d)
                IN IF dmg > old.max_damage
                   THEN new.max_damage = dmg /\ new.max_immunity = i
                   ELSE new.max_damage = old.max_damage
                          /\ new.max_immunity = old.max_immunity
             /\ \A t2 \in ImmunityTargets, d2 \in ImmunityTypes :
                   <<t2, d2>> # <<t, d>> =>
                      LET old == get_immunity_for_target_and_type(store, t2, d2)
                          new == get_immunity_for_target_and_type(store', t2, d2)
                      IN new.max_damage = old.max_damage
                            /\ new.max_immunity = old.max_immunity]_vars

(* C3 witness: (Goblin, Fire) after three samples, one of them ignored for  *)
(* its damage although its immunity was higher, holds the pair of the       *)
(* highest-damage hit (60 dealt, 12 absorbed).                              *)
C3_Witness ==
    /\ <<"Goblin", "Fire">> \in ignored
    /\ get_immunity_for_target_and_type(store, "Goblin", "Fire")
          = [max_immunity |-> 12, max_damage |-> 60, sample_count |-> 3]

(***************************************************************************)
(* Properties of the tail reader                                           *)
(***************************************************************************)
(* A step that is a poll in which no I/O call raised. *)
FaultFreePoll ==
    /\ dir' = dir
    /\ game' = game
    /\ LET r == read_new_lines(monitor, parser, dir, "none")
       IN monitor' = r.monitor /\ parser' = r.parser /\ data_queue' = r.out

(* How many items of queue q carry the message. *)
Count(q, message) == Cardinality({i \in 1..Len(q) : q[i].message = message})

(* The lines a poll gave to the parser, from the "Raw line" items of q. *)
RawLines(q) ==
    LET raw == SelectSeq(q, LAMBDA item : item.message = "Raw line")
    IN [i \in 1..Len(raw) |-> raw[i].args[1]]

(* The lines of content from line number from on, each one whole. *)
WholeLines(content, from) ==
    [i \in 1..(Len(content) - from + 1) |-> [line |-> content[from + i - 1], skip |-> 0]]

(* C6: a poll that finds another candidate file to be the newest puts one   *)
(* rotation item and no truncation item, selects that file, gives the       *)
(* parser every line of it from the first, and leaves the offset at its     *)
(* end.                                                                     *)
C6_RotationReadsNewFileFromStart ==
    [][LET active == find_active_log_file(dir)
       IN (FaultFreePoll /\ active # None /\ active # monitor.current_log_file)
          => LET content == dir.files[Val(active)].content
             IN /\ Count(data_queue', RotationMessage) = 1
                /\ Count(data_queue', TruncationMessage) = 0
                /\ Count(data_queue', ClearedMessage) = 0
                /\ monitor'.current_log_file = active
                /\ RawLines(data_queue') = WholeLines(content, 1)
                /\ monitor'.last_position = st_size(content)]_vars

(* C6 witness: the last poll left a file it had read into for another one,  *)
(* and read lines from the new one.                                         *)
C6_Witness ==
    \E i \in 1..Len(data_queue) :
        /\ data_queue[i].message = RotationMessage
        /\ data_queue[i].args[1] # None
        /\ data_queue[i].args[2] = monitor.current_log_file
        /\ tail.started
        /\ RawLines(data_queue) # <<>>

(* C7: a poll that finds the selected file still the newest but shorter     *)
(* than the offset puts one truncation item and no rotation item, keeps     *)
(* the file, gives the parser every line of it from the first, and leaves   *)
(* the offset at its end.                                                   *)
C7_TruncationRereadsSameFile ==
    [][LET active == find_active_log_file(dir)
       IN (/\ FaultFreePoll
           /\ active # None
           /\ active = monitor.current_log_file
           /\ st_size(dir.files[Val(active)].content) < monitor.last_position)
          => LET content == dir.files[Val(active)].content
             IN /\ Count(data_queue', TruncationMessage) = 1
                /\ Count(data_queue', RotationMessage) = 0
                /\ monitor'.current_log_file = monitor.current_log_file
                /\ RawLines(data_queue') = WholeLines(content, 1)
                /\ monitor'.last_position = st_size(content)]_vars

(* C7 witness: the last poll reported a truncation and forwarded lines the  *)
(* game had written after clearing the file.                                *)
C7_Witness ==
    /\ Count(data_queue, TruncationMessage) = 1
    /\ RawLines(data_queue) # <<>>
    /\ monitor.last_position > 0

(* C8, between polls: while the game has neither cleared the selected file  *)
(* nor made another file the newest since start_monitoring, the lines       *)
(* given to the parser are the lines of the file after those it held at     *)
(* start_monitoring, whole, in file order, each once, and the offset is     *)
(* the end of the last of them.                                             *)
C8_Forwarded ==
    (tail.started /\ tail.clean) =>
        /\ monitor.current_log_file # None
        /\ LET content == dir.files[Val(monitor.current_log_file)].content
               n == tail.base + Len(tail.forwarded)
           IN /\ n <= Len(content)
              /\ tail.forwarded =
                    [i \in 1..Len(tail.forwarded) |->
                        [line |-> content[tail.base + i], skip |-> 0]]
              /\ monitor.last_position = st_size(SubSeq(content, 1, n))

(* C8, at a poll: such a poll reports neither rotation nor truncation and   *)
(* gives the parser every line appended since the poll before.              *)
C8_PollForwardsAppended ==
    [][(FaultFreePoll /\ tail.started /\ tail.clean)
       => LET content == dir.files[Val(monitor.current_log_file)].content
          IN /\ Count(data_queue', RotationMessage) = 0
             /\ Count(data_queue', TruncationMessage) = 0
             /\ RawLines(data_queue') =
                   WholeLines(content, tail.base + Len(tail.forwarded) + 1)
             /\ tail'.base + Len(tail'.forwarded) = Len(content)]_vars

(* C8: absent rotation and truncation, every line appended to the active    *)
(* file after start_monitoring is given to the parser exactly once and in   *)
(* file order over the polls, and the lines the file held at                *)
(* start_monitoring are never given to it.                                  *)
C8_AppendedLinesForwardedOnce == []C8_Forwarded /\ C8_PollForwardsAppended

(* C8 witness: a file that held a line at start_monitoring; two lines       *)
(* appended and forwarded by two separate polls.                            *)
C8_Witness ==
    /\ tail.started
    /\ tail.clean
    /\ tail.base > 0
    /\ Len(tail.forwarded) = 2
    /\ Count(data_queue, "Read new line(s)") = 1
    /\ Len(RawLines(data_queue)) = 1

(***************************************************************************)
(* Properties of the bulk-ingestion service                                *)
(***************************************************************************)
(* The threads that are ingesting a file. *)
Ingesting == {w \in 1..Len(workers) : workers[w].pc = "parse"}

C9_OneIngesting == Cardinality(Ingesting) <= 1

C9_StartRefused ==
    [][(ui.pc = "idle" /\ service.is_parsing)
       => (ui'.pc # "start_thread" /\ Len(workers') = Len(workers))]_vars

(* C9: at every moment at most one thread is ingesting a file, whatever the *)
(* order of the start_parsing and stop_parsing calls; and a start_parsing   *)
(* call made while is_parsing is set starts no thread.                      *)
C9_AtMostOneWorker == []C9_OneIngesting /\ C9_StartRefused

Started(w) == w \in 1..Len(workers)
Ended(w) == Started(w) /\ workers[w].pc = "done"

(* Time and again every thread that was started has ended: a thread that   *)
(* has ended stays so, so every started thread ends.                       *)
C10_Eventually == []<>(\A w \in 1..Len(workers) : Ended(w))

(* A thread has called on_complete once when it has ended and not before;   *)
(* and when every thread has ended and no start_parsing call is under way,  *)
(* is_parsing is False.                                                     *)
C10_Ended ==
    /\ \A w \in 1..Len(workers) :
          workers[w].completions = IF workers[w].pc = "done" THEN 1 ELSE 0
    /\ ((\A w \in 1..Len(workers) : workers[w].pc = "done") /\ ui.pc # "start_thread")
          => ~service.is_parsing

(* A thread ends only through the finally clause, and the step through the  *)
(* finally clause leaves is_parsing False.                                  *)
C10_Clears ==
    [][\A w \in 1..Len(workers) :
          /\ (workers[w].pc # "done" /\ workers'[w].pc = "done")
                => workers[w].pc = "complete"
          /\ (workers[w].pc # "complete" /\ workers'[w].pc = "complete")
                => (workers[w].pc = "finally" /\ ~service'.is_parsing)]_vars

(* C10: every thread that was started ends, having set is_parsing to False  *)
(* and then called on_complete once, whether it ingested every file, was    *)
(* cancelled, found no files or met an exception; when the threads have     *)
(* ended, is_parsing is False.                                              *)
C10_WorkerAlwaysCompletes == C10_Eventually /\ []C10_Ended /\ C10_Clears

(* C10 witness: two threads have ended, one of them after an exception, and *)
(* each has called on_complete once.                                        *)
C10_Witness ==
    /\ Len(workers) = 2
    /\ \A w \in 1..2 : workers[w].pc = "done" /\ workers[w].completions = 1
    /\ \E w \in 1..2 : workers[w].ending = "raised"
    /\ ~service.is_parsing

(* Thread w goes from the head of the loop into a file. *)
StartsFile(w) == workers[w].pc = "loop" /\ workers'[w].pc = "parse"

(* Thread w comes back from parse_and_import_file with a file it could     *)
(* open.                                                                   *)
FinishesFile(w) ==
    /\ workers[w].pc = "parse"
    /\ workers'[w].pc = "loop"
    /\ workers'[w].files_processed = workers[w].files_processed + 1

(* The file thread w is in is ingested to its last line although           *)
(* stop_parsing has been called.                                           *)
C11_CurrentFileFinishes ==
    [][\A w \in 1..Len(workers) :
          (workers[w].stop_requested /\ FinishesFile(w))
             => LET content == dir.files[Head(workers[w].log_files)].content
                IN /\ workers'[w].total_lines = workers[w].total_lines + Len(content)
                   /\ Len(store'.attacks) = Len(store.attacks) + Len(content)]_vars

(* A thread starts no file once stop_parsing has been called. *)
C11_NoFurtherFile ==
    [][\A w \in 1..Len(workers) : workers[w].stop_requested => ~StartsFile(w)]_vars

(* C11: cancellation is tested between files only: after stop_parsing the  *)
(* file a thread is ingesting is ingested to its end, and the thread starts *)
(* no further file.                                                        *)
C11_CancelAtFileBoundary == C11_CurrentFileFinishes /\ C11_NoFurtherFile

(* A step of restore_session_state that finds a saved state, taken when    *)
(* past logs have been merged.                                             *)
RestoresMerged ==
    /\ service.session_only_state # None
    /\ service.past_logs_included
    /\ ~service'.past_logs_included

(* C12: once past logs have been merged, restore_session_state leaves the  *)
(* store's events, attacks, DPS aggregates, last-damage timestamp and      *)
(* immunity records and the parser's registries with exactly the contents  *)
(* they had when save_session_state took its copy.                         *)
C12_RestoreReturnsSnapshot ==
    [][RestoresMerged
         => SessionContents(store', parser') = Val(service.state_when_saved)]_vars

(* C13: the dict save_session_state leaves in session_only_state holds the *)
(* contents the store's containers and the parser's registries had at one  *)
(* instant of the call, with no parse_line call of the other thread half   *)
(* done.                                                                   *)
C13_SnapshotIsPointInTime ==
    service.session_only_state # None => Val(service.session_only_state) \in seen

(* The calls of a method that have returned, and the sum of their amounts *)
Returned(method) == {call \in seen : call.method = method}

RECURSIVE SumAmounts(_)
SumAmounts(calls) ==
    IF calls = {} THEN 0
    ELSE LET call == CHOOSE x \in calls : TRUE
         IN call.amount + SumAmounts(calls \ {call})

(* The store holds what the calls that have returned wrote, all of it and  *)
(* nothing else: one event per insert_damage_event call, the sum of the    *)
(* update_dps_data amounts as total damage, the latest of their timestamps *)
(* as last_damage_timestamp.                                               *)
WholeUpdatesOnly ==
    /\ Len(store.events) = Cardinality(Returned("insert_damage_event"))
    /\ TotalDamage(store) = SumAmounts(Returned("update_dps_data"))
    /\ store.last_damage_timestamp =
          IF Returned("update_dps_data") = {} THEN None
          ELSE Some(SetMax({call.timestamp : call \in Returned("update_dps_data")}))

(* C14: a DataStore method holds the lock from its first read to its last  *)
(* write, so at most one thread is inside a method; whenever the lock is   *)
(* free, and whenever a query reads the store, the store holds exactly the *)
(* updates of the calls that have returned: none is lost, none is partial. *)
C14_LockedMethodsAreAtomic ==
    /\ Cardinality({t \in StoreThreads :
                       workers[t].pc \notin {"idle", "with_lock"}}) <= 1
    /\ (store.lock = None \/ \E t \in StoreThreads : workers[t].pc = "get_dps_data")
          => WholeUpdatesOnly

(* C14 witness: both threads have returned from update_dps_data, a third   *)
(* call has returned too, and the total is the sum of the amounts.         *)
C14_Witness ==
    /\ Cardinality(seen) = MaxCalls
    /\ Cardinality(Returned("update_dps_data")) >= 2
    /\ Returned("insert_damage_event") # {}
    /\ \A t \in StoreThreads : workers[t].pc = "idle"
    /\ TotalDamage(store) = SumAmounts(Returned("update_dps_data"))
    /\ TotalDamage(store) >= 20

(***************************************************************************)
(* Properties of the live pipeline                                         *)
(***************************************************************************)
(* How far apart in time the immunity and the damage of a recorded         *)
(* correlation are.                                                        *)
Distance(c) == AbsDiff(c.immunity_timestamp, c.damage_timestamp)

(* C15: the pipeline records an immunity sample only against a damage line *)
(* for the same target and type that lies inside the time window: every    *)
(* record_immunity call the processor has made matched an immunity with a  *)
(* damage event at most one second away.                                   *)
C15_RecordedOnlyInsideWindow ==
    \A i \in 1..Len(queue_processor.recorded) :
        Distance(queue_processor.recorded[i]) <= 1

(* The immunities queued under target and damage_type. *)
Pending(qp, target, damage_type) ==
    IF target \in DOMAIN qp.pending_immunity_queue
          /\ damage_type \in DOMAIN qp.pending_immunity_queue[target]
    THEN qp.pending_immunity_queue[target][damage_type]
    ELSE <<>>

(* The parsed events among the items of queue q. *)
ParsedEvents(q) ==
    LET parsed == SelectSeq(q, LAMBDA item : item.type \notin {"debug", "info", "error"})
    IN [i \in 1..Len(parsed) |-> parsed[i].args[1]]

(* The parsed event of a queue that holds the items of one parsed line. *)
OnlyEvent ==
    {ParsedEvents(data_queue)[i] : i \in {n \in {1} : Len(ParsedEvents(data_queue)) = 1}}

(* A step in which the processor drains a queue whose one event is e. *)
Drains(e) == ParsedEvents(data_queue) = <<e>> /\ data_queue' = <<>>

(* The correlations the step records. *)
NewlyRecorded ==
    SubSeq(queue_processor'.recorded, Len(queue_processor.recorded) + 1,
           Len(queue_processor'.recorded))

(* Whether the buffered damage of the target of immunity event e contains  *)
(* the type of e.                                                          *)
BufferedDamageHasType(e) ==
    /\ e.target \in DOMAIN queue_processor.damage_buffer
    /\ e.damage_type \in DOMAIN queue_processor.damage_buffer[e.target].damage_types

(* The correlation of queued immunity q of damage_type with damage event d *)
Correlated(q, d, damage_type) ==
    [path |-> "queued", target |-> d.target, damage_type |-> damage_type,
     immunity |-> q.immunity, immunity_timestamp |-> q.timestamp,
     damage_dealt |-> d.damage_types[damage_type], damage_timestamp |-> d.timestamp]

RECURSIVE CorrelatedAll(_, _, _)
CorrelatedAll(queued, d, damage_type) ==
    IF queued = <<>> THEN <<>>
    ELSE <<Correlated(Head(queued), d, damage_type)>>
            \o CorrelatedAll(Tail(queued), d, damage_type)

(* An immunity event with no buffered damage containing its type is not    *)
(* recorded and joins the pending queue (from which the clean-up at the    *)
(* end of the pass, run when the event count is a multiple of 100, may     *)
(* already have removed it as stale).                                      *)
QueuedNotRecorded(e) ==
    /\ NewlyRecorded = <<>>
    /\ store'.immunity_data = store.immunity_data
    /\ \/ Pending(queue_processor', e.target, e.damage_type)
            = Append(Pending(queue_processor, e.target, e.damage_type),
                     [immunity |-> e.immunity_points, timestamp |-> e.timestamp])
       \/ queue_processor'.parsed_event_count % 100 = 0

(* The claim as written, for a parser with immunity parsing enabled: the   *)
(* unmatched immunity is queued and not recorded, and a later damage event *)
(* for the target containing the type records every queued immunity        *)
(* against its amount and empties the queue.                               *)
C16_AsWritten ==
    [][\A e \in OnlyEvent :
          Drains(e) =>
            /\ (e.type = "immunity" /\ parser.parse_immunity /\ ~BufferedDamageHasType(e))
                  => QueuedNotRecorded(e)
            /\ e.type = "damage_dealt" =>
                  \A dt \in DOMAIN e.damage_types :
                     /\ Pending(queue_processor', e.target, dt) = <<>>
                     /\ SelectSeq(NewlyRecorded, LAMBDA c : c.damage_type = dt)
                           = CorrelatedAll(Pending(queue_processor, e.target, dt), e, dt)
      ]_vars

(* C16: while immunity parsing is enabled, an immunity event that arrives  *)
(* with no buffered damage containing its type is queued, not recorded.    *)
(* When a later damage event for that target containing that type arrives, *)
(* the queued immunities of that type are removed from the pending queue,  *)
(* and exactly those whose timestamp is within one second of the damage's  *)
(* are recorded against that damage amount; the others are dropped         *)
(* unrecorded.                                                             *)
C16_QueuedThenMatchedInsideWindow ==
    [][\A e \in OnlyEvent :
          Drains(e) =>
            /\ (e.type = "immunity" /\ parser.parse_immunity /\ ~BufferedDamageHasType(e))
                  => QueuedNotRecorded(e)
            /\ e.type = "damage_dealt" =>
                  \A dt \in DOMAIN e.damage_types :
                     /\ Pending(queue_processor', e.target, dt) = <<>>
                     /\ SelectSeq(NewlyRecorded, LAMBDA c : c.damage_type = dt)
                           = CorrelatedAll(
                                SelectSeq(Pending(queue_processor, e.target, dt),
                                          LAMBDA q : AbsDiff(e.timestamp, q.timestamp) <= 1),
                                e, dt)
      ]_vars

(* C16 witness: a queued immunity has been matched by a later damage event *)
(* and recorded against its amount, and its queue is empty again.          *)
C16_Witness ==
    /\ \E i \in 1..Len(queue_processor.recorded) :
          /\ queue_processor.recorded[i].path = "queued"
          /\ queue_processor.recorded[i].damage_dealt = 20
          /\ queue_processor.recorded[i].immunity_timestamp
                < queue_processor.recorded[i].damage_timestamp
    /\ Pending(queue_processor, "Goblin", "Fire") = <<>>
    /\ get_immunity_for_target_and_type(store, "Goblin", "Fire").max_damage = 20

(***************************************************************************)
(* Properties of the immunity solver                                       *)
(***************************************************************************)
(* C17: for every damage before immunity and every percentage, with        *)
(* reduced = compute_dmg_reduced(before, pct / 100),                       *)
(* calculate_immunity_percentage(before, reduced) returns an integer v     *)
(* with compute_dmg_reduced(before, v / 100) = reduced.                    *)
C17_SolverRoundTrip ==
    (ui.pc = "calculated" /\ ui.called_with = "before") =>
        /\ ui.result # None
        /\ ui.dmg_reduced \in compute_dmg_reduced(ui.dmg_before_immunity, Val(ui.result))

(* The four lines of the scenario have been read in its order, the damage  *)
(* line and the immunity line at whatever times, and all of them have been *)
(* processed with immunity parsing enabled.                                *)
ScenarioProcessed ==
    /\ Len(tail.forwarded) = 4
    /\ \E t1, t2 \in 1..(2 * MaxLines) :
          tail.forwarded = <<DamageLine("Woo", "Goblin", 50, Fire20, t1),
                             ImmunityLine("Goblin", 10, "Fire", t2),
                             AttackLine("Woo", "Goblin", "hit", 16, 5),
                             AttackLine("Woo", "Goblin", "miss", 10, 5)>>
    /\ data_queue = <<>>
    /\ ignored = {}

(* What the scenario leaves in the store: Woo's total damage 50 and the    *)
(* immunity record of (Goblin, Fire) with max_damage 20, max_immunity 10.  *)
ScenarioTotals ==
    /\ store.dps_data["Woo"].total_damage = 50
    /\ get_immunity_for_target_and_type(store, "Goblin", "Fire").max_damage = 20
    /\ get_immunity_for_target_and_type(store, "Goblin", "Fire").max_immunity = 10

(* The claim as written, for a parser with immunity parsing enabled: the   *)
(* scenario yields the totals and the defense estimate "16" for Goblin.    *)
C18_AsWritten ==
    ScenarioProcessed =>
        ScenarioTotals /\ get_ac_estimate(parser.target_ac["Goblin"]) = "16"

(* C18: with immunity parsing enabled, processing in order the damage line *)
(* of 50 (30 Physical 20 Fire) by Woo on Goblin, the immunity line of 10   *)
(* points of Fire for Goblin, a hit with total 21 and a miss with total 15 *)
(* against Goblin yields total_damage(Woo) = 50, the immunity record       *)
(* (Goblin, Fire) = {max_damage 20, max_immunity 10} and the defense       *)
(* estimate "16-21" for Goblin.                                            *)
C18_ScenarioOutcome ==
    ScenarioProcessed =>
        ScenarioTotals /\ get_ac_estimate(parser.target_ac["Goblin"]) = "16-21"

(* C18 witness: the scenario has been processed, the hit of 21 is retained *)
(* and the miss of 15 is the highest miss.                                 *)
C18_Witness ==
    /\ ScenarioProcessed
    /\ parser.target_ac["Goblin"].hits = <<21>>
    /\ parser.target_ac["Goblin"].max_miss = Some(15)
    /\ Len(queue_processor.recorded) = 1

(***************************************************************************)
(* Properties of the estimates of a session                                *)
(***************************************************************************)
(* None, as a bound that is not known yet, is below every lower bound and  *)
(* above every upper bound.                                                *)
NotBelow(new, old) == old = None \/ (new # None /\ Val(new) >= Val(old))
NotAbove(new, old) == new # None /\ (old = None \/ Val(new) <= Val(old))

(* The step is not an explicit reset of the session. *)
KeepsSession ==
    ~(store' = clear_all_data(store) /\ parser' = clear_registries(parser))

LowerBoundsHold ==
    \A t \in DOMAIN parser.target_ac :
        NotBelow(parser'.target_ac[t].max_miss, parser.target_ac[t].max_miss)

SavesHold ==
    \A t \in DOMAIN parser.target_saves :
        /\ NotBelow(parser'.target_saves[t].fortitude, parser.target_saves[t].fortitude)
        /\ NotBelow(parser'.target_saves[t].reflex, parser.target_saves[t].reflex)
        /\ NotBelow(parser'.target_saves[t].will, parser.target_saves[t].will)

(* The claim as written: between resets, for each target the lower bound   *)
(* of the defense window never decreases and its upper bound (the minimum  *)
(* retained hit) never increases, each save maximum never decreases, and   *)
(* the two maxima of each immunity record never decrease.                  *)
C19_AsWritten ==
    [][KeepsSession =>
          /\ LowerBoundsHold
          /\ \A t \in DOMAIN parser.target_ac :
                min_hit(parser.target_ac[t]) # None =>
                    NotAbove(min_hit(parser'.target_ac[t]), min_hit(parser.target_ac[t]))
          /\ SavesHold
          /\ \A t \in DOMAIN store.immunity_data :
                \A d \in DOMAIN store.immunity_data[t] :
                    /\ store'.immunity_data[t][d].max_damage
                          >= store.immunity_data[t][d].max_damage
                    /\ store'.immunity_data[t][d].max_immunity
                          >= store.immunity_data[t][d].max_immunity
      ]_vars

(* C19: between explicit session resets, for each target the lower bound   *)
(* of the defense window (maximum miss + 1) never decreases; its upper     *)
(* bound (minimum retained hit) never increases as long as the maximum     *)
(* miss stays the same, and when a higher miss discards retained hits the  *)
(* upper bound moves above the new maximum miss or becomes unknown; each   *)
(* save maximum never decreases; each immunity record's max_damage and     *)
(* sample count never decrease, and its max_immunity changes only together *)
(* with a rise of max_damage (and may then go down).                       *)
C19_EstimatesBetweenResets ==
    [][KeepsSession =>
          /\ LowerBoundsHold
          /\ \A t \in DOMAIN parser.target_ac :
                LET old == min_hit(parser.target_ac[t])
                    new == min_hit(parser'.target_ac[t])
                IN /\ (old # None /\ parser'.target_ac[t].max_miss = parser.target_ac[t].max_miss)
                        => NotAbove(new, old)
                   /\ (new # None /\ parser'.target_ac[t].max_miss # None)
                        => Val(new) > Val(parser'.target_ac[t].max_miss)
          /\ SavesHold
          /\ \A t \in DOMAIN store.immunity_data :
                \A d \in DOMAIN store.immunity_data[t] :
                    /\ store'.immunity_data[t][d].max_damage
                          >= store.immunity_data[t][d].max_damage
                    /\ store'.immunity_data[t][d].sample_count
                          >= store.immunity_data[t][d].sample_count
                    /\ store'.immunity_data[t][d].max_immunity
                          # store.immunity_data[t][d].max_immunity
                       => store'.immunity_data[t][d].max_damage
                             > store.immunity_data[t][d].max_damage
      ]_vars

(* C19 witness: a session in which a higher miss has discarded a retained  *)
(* hit and the immunity record of (Goblin, Fire) has taken a second sample *)
(* with more damage than the first.                                        *)
C19_Witness ==
    /\ "Goblin" \in pruned
    /\ "Goblin" \in DOMAIN parser.target_ac
    /\ get_immunity_for_target_and_type(store, "Goblin", "Fire").sample_count = 2
    /\ get_immunity_for_target_and_type(store, "Goblin", "Fire").max_damage = 60

(* The estimate the rule of the claim gives for a tracker with the given   *)
(* maximum miss and retained hits (None where there is none).              *)
ExpectedEstimate(max_miss, lowest_hit) ==
    IF max_miss # None /\ lowest_hit # None
    THEN IF Val(max_miss) + 1 = Val(lowest_hit) THEN ToString(Val(lowest_hit))
         ELSE ToString(Val(max_miss) + 1) \o "-" \o ToString(Val(lowest_hit))
    ELSE IF lowest_hit # None THEN at_most_sign \o ToString(Val(lowest_hit))
    ELSE IF max_miss # None THEN ">" \o ToString(Val(max_miss))
    ELSE "-"

(* C20: get_ac_estimate returns the exact value min(hits) when             *)
(* max_miss + 1 = min(hits), the inclusive range max_miss + 1 to min(hits) *)
(* when max_miss + 1 < min(hits), a one-sided bound when only hits or only *)
(* misses are recorded, and the empty marker when neither is; the tracker  *)
(* after hit 21, miss 15, hit 16 gives "16", after hit 18, miss 14 gives   *)
(* "15-18".                                                                *)
C20_EstimateByCase ==
    /\ \A t \in DOMAIN parser.target_ac :
          LET ac == parser.target_ac[t]
              lowest == IF ac.hits = <<>> THEN None ELSE Some(SeqMin(ac.hits))
          IN /\ (ac.max_miss # None /\ lowest # None) => Val(ac.max_miss) < Val(lowest)
             /\ get_ac_estimate(ac) = ExpectedEstimate(ac.max_miss, lowest)
             /\ (ac.hits = <<21, 16>> /\ ac.max_miss = Some(15)) => get_ac_estimate(ac) = "16"
             /\ (ac.hits = <<18>> /\ ac.max_miss = Some(14)) => get_ac_estimate(ac) = "15-18"
    /\ get_ac_estimate(EnemyAC("Goblin")) = "-"
    /\ get_ac_estimate(record_hit(record_miss(record_hit(EnemyAC("Goblin"), 21, FALSE),
                                              15, FALSE), 16, FALSE)) = "16"
    /\ get_ac_estimate(record_miss(record_hit(EnemyAC("Goblin"), 18, FALSE),
                                   14, FALSE)) = "15-18"

(* C20 witness: Goblin has been hit with 21, missed with 15 and hit with   *)
(* 16, and its estimate is the exact value.                                *)
C20_Witness ==
    /\ "Goblin" \in DOMAIN parser.target_ac
    /\ parser.target_ac["Goblin"].hits = <<21, 16>>
    /\ parser.target_ac["Goblin"].max_miss = Some(15)
    /\ get_ac_estimate(parser.target_ac["Goblin"]) = "16"

(* The targets on which the step records a miss total that exceeds a hit   *)
(* total the tracker had retained.                                         *)
MissAboveHit ==
    {t \in DOMAIN parser.target_ac \cap DOMAIN parser'.target_ac :
        /\ parser.target_ac[t].hits # <<>>
        /\ parser'.target_ac[t].max_miss # parser.target_ac[t].max_miss
        /\ Val(parser'.target_ac[t].max_miss) > SeqMin(parser.target_ac[t].hits)}

(* C21: when a recorded miss total exceeds a recorded hit total,           *)
(* get_ac_estimate returns the approximate fallback, "~" followed by the   *)
(* minimum hit: "~15" after record_hit(15) and record_miss(20).            *)
C21_ConflictFallsBack ==
    [][/\ \A t \in MissAboveHit :
             get_ac_estimate(parser'.target_ac[t])
                 = "~" \o ToString(SeqMin(parser.target_ac[t].hits))
       /\ get_ac_estimate(record_miss(record_hit(EnemyAC("Goblin"), 15, FALSE),
                                      20, FALSE)) = "~15"]_vars

(* The attacks and the events the last parse_and_import_file call appended *)
NewAttacks == SubSeq(store.attacks, Len(ui.before.attacks) + 1, Len(store.attacks))
NewEvents == SubSeq(store.events, Len(ui.before.events) + 1, Len(store.events))

(* The numbers of the lines of the file whose attack or damage events the  *)
(* last call put into the store.                                           *)
IngestedLines ==
    {NewAttacks[i].roll - 10 : i \in DOMAIN NewAttacks}
        \cup {NewEvents[i].timestamp : i \in DOMAIN NewEvents}

ImportedFile == dir.files[1].content

(* The lines of the file that store an attack or damage events *)
StoringLines == {k \in DOMAIN ImportedFile : ImportedFile[k].kind \in {"attack", "damage"}}

(* C22 as stated: with a bound N, ingestion stops before line N, so no     *)
(* line numbered N or higher is ingested.                                  *)
C22_AsWritten ==
    (ui.pc = "imported" /\ ui.max_line # None)
        => \A k \in IngestedLines : k < Val(ui.max_line)

(* C22: with a bound N, ingestion stops after line N: the lines numbered 1 *)
(* to N are ingested, no line numbered above N is, and the call reports    *)
(* the smaller of N and the length of the file as lines_processed.         *)
C22_StopsAfterLineN ==
    (ui.pc = "imported" /\ ui.success /\ ui.max_line # None)
        => /\ IngestedLines = {k \in StoringLines : k <= Val(ui.max_line)}
           /\ ui.lines_processed = IF Val(ui.max_line) < Len(ImportedFile)
                                   THEN Val(ui.max_line) ELSE Len(ImportedFile)

(* C22 witness: a file of three lines was ingested with bound 2; its line  *)
(* 2, an attack, is in the store and its line 3, a damage line, is not.    *)
C22_Witness ==
    /\ ui.pc = "imported" /\ ui.success /\ ui.max_line = Some(2)
    /\ Len(ImportedFile) = 3
    /\ ImportedFile[2].kind = "attack" /\ ImportedFile[3].kind = "damage"
    /\ 2 \in IngestedLines /\ 3 \notin IngestedLines
    /\ ui.lines_processed = 2

(* Thread w comes back from parse_and_import_file with a file that failed. *)
FailsFile(w) ==
    /\ workers[w].pc = "parse"
    /\ workers'[w].failures = workers[w].failures + 1

(* The failure of a file is reported for that file, and the thread is back *)
(* at the head of the loop with the remaining files.                       *)
C23_FailureReported ==
    [][\A w \in 1..Len(workers) :
          FailsFile(w)
             => /\ workers'[w].reported = Append(workers[w].reported, Head(workers[w].log_files))
                /\ workers'[w].pc = "loop"
                /\ workers'[w].log_files = Tail(workers[w].log_files)
                /\ workers'[w].ending = "running"]_vars

(* At the head of the loop with a file left and no cancellation, the       *)
(* thread goes into that file, however many files have failed.             *)
C23_GoesOn ==
    [][\A w \in 1..Len(workers) :
          (/\ workers[w].pc = "loop" /\ workers[w].log_files # <<>>
           /\ service.is_parsing /\ workers'[w].pc # workers[w].pc)
             => workers'[w].pc = "parse"]_vars

(* A thread that has left the loop with no file left, by no break and no   *)
(* exception, has ingested or reported every file of the directory.        *)
C23_EveryFileTried ==
    \A w \in 1..Len(workers) :
        (/\ workers[w].pc \in {"finally", "complete"} /\ workers[w].ending = "completed"
         /\ workers[w].log_files = <<>>)
            => workers[w].files_processed + Len(workers[w].reported) = workers[w].n_files

(* C23: when the ingestion of one file fails, the failure is reported for  *)
(* that file through on_log and the thread goes on with every remaining    *)
(* file; the failure of a file does not end the run.                       *)
C23_FailureDoesNotAbort == C23_FailureReported /\ C23_GoesOn /\ []C23_EveryFileTried

(* C23 witness: a thread has completed a run of two files in which the     *)
(* first file failed and was reported and the second was ingested.         *)
C23_Witness ==
    \E w \in 1..Len(workers) :
        /\ workers[w].pc = "complete"
        /\ workers[w].ending = "completed"
        /\ ~workers[w].stop_requested
        /\ workers[w].n_files = 2
        /\ workers[w].reported = <<1>>
        /\ workers[w].failures = 1
        /\ workers[w].files_processed = 1
        /\ workers[w].total_lines = 2

(* A poll in which an I/O call raised puts one error item, as the last     *)
(* item, and the others are debug items.                                   *)
OneErrorItem(q) ==
    /\ q # <<>>
    /\ q[Len(q)] = ErrorItem
    /\ \A i \in 1..(Len(q) - 1) : q[i].type = "debug"

(* C24: the start and poll operations of the monitor never raise: a        *)
(* missing directory or one without candidate files is no error, and an    *)
(* I/O failure is caught inside the monitor and put on the queue as one    *)
(* error item.                                                             *)
C24_StartAndPollNeverRaise ==
    /\ ui.pc # "raised"
    /\ (\E i \in DOMAIN data_queue : data_queue[i].type = "error") => OneErrorItem(data_queue)

(* The arguments get_dps_data is called with: the two modes, and in global *)
(* mode no start time or any time of the session.                          *)
DpsCalls ==
    {<<"per_character", None>>}
        \cup {<<"global", g>> : g \in {None} \cup {Some(t) : t \in Timestamps}}

(* The time the elapsed time of a character is counted from in a call *)
StartOf(st, call, character) ==
    IF call[1] = "global"
    THEN IF call[2] = None
         THEN SetMin({st.dps_data[c].first_timestamp : c \in DOMAIN st.dps_data})
         ELSE Val(call[2])
    ELSE st.dps_data[character].first_timestamp

(* C25: in both time modes get_dps_data divides by the elapsed seconds     *)
(* floored at 1: every returned entry has rate total_damage over           *)
(* max(last damage - start, 1), a divisor of at least 1, also when the     *)
(* start and the last-damage timestamp coincide.                           *)
C25_ElapsedFlooredAtOne ==
    \A call \in DpsCalls :
        LET list == get_dps_data(store, call[1], call[2])
        IN /\ {list[i].character : i \in 1..Len(list)} = DOMAIN store.dps_data
           /\ \A i \in 1..Len(list) :
                 LET elapsed == Val(store.last_damage_timestamp)
                                    - StartOf(store, call, list[i].character)
                 IN /\ list[i].dps.den >= 1
                    /\ list[i].dps.den = IF elapsed > 1 THEN elapsed ELSE 1
                    /\ list[i].dps.num = store.dps_data[list[i].character].total_damage
                    /\ list[i].total_damage = list[i].dps.num

(* C25 witness: CharacterA's only damage is also the last damage, so its   *)
(* elapsed time is 0 in both modes, and its rate is its total over 1.      *)
C25_Witness ==
    /\ DOMAIN store.dps_data = {"CharacterA"}
    /\ store.dps_data["CharacterA"].first_timestamp = 5
    /\ store.last_damage_timestamp = Some(5)
    /\ \A call \in {<<"per_character", None>>, <<"global", None>>, <<"global", Some(10)>>} :
          LET e == get_dps_data(store, call[1], call[2])[1]
          IN e.time_seconds <= 0 /\ e.dps = [num |-> store.dps_data["CharacterA"].total_damage,
                                             den |-> 1]

(* The calls made for a character, as a set of positions in ui.calls *)
CallsOf(c) == {i \in DOMAIN ui.calls : ui.calls[i].character = c}

(* The sum of amount[i] over a set of positions *)
RECURSIVE SumOver(_, _)
SumOver(positions, amount) ==
    IF positions = {} THEN 0
    ELSE LET i == CHOOSE j \in positions : TRUE
         IN amount[i] + SumOver(positions \ {i}, amount)

(* The amount of type d in call i (0 when the call has no such type) *)
TypeAmount(i, d) ==
    IF d \in DOMAIN ui.calls[i].damage_types THEN ui.calls[i].damage_types[d] ELSE 0

(* C26: after any sequence of update_dps_data calls, in any timestamp      *)
(* order, each character's total_damage is the sum of its amounts, each    *)
(* damage-type subtotal the sum recorded for that type, first_timestamp    *)
(* the earliest timestamp of the character, and the global last-damage     *)
(* timestamp the latest timestamp of any character.                        *)
C26_AggregatesAreSums ==
    /\ DOMAIN store.dps_data = {ui.calls[i].character : i \in DOMAIN ui.calls}
    /\ \A c \in DOMAIN store.dps_data :
          LET data == store.dps_data[c]
          IN /\ data.total_damage = SumOver(CallsOf(c), [i \in DOMAIN ui.calls |-> ui.calls[i].amount])
             /\ DOMAIN data.damage_by_type
                    = UNION {DOMAIN ui.calls[i].damage_types : i \in CallsOf(c)}
             /\ \A d \in DOMAIN data.damage_by_type :
                   data.damage_by_type[d] = SumOver(CallsOf(c), [i \in DOMAIN ui.calls |-> TypeAmount(i, d)])
             /\ data.first_timestamp = SetMin({ui.calls[i].timestamp : i \in CallsOf(c)})
    /\ store.last_damage_timestamp =
          IF ui.calls = <<>> THEN None
          ELSE Some(SetMax({ui.calls[i].timestamp : i \in DOMAIN ui.calls}))

(* C26 witness: three calls with falling timestamps, two of them for       *)
(* CharacterA with Fire damage, have been made.                            *)
C26_Witness ==
    /\ Len(ui.calls) = 3
    /\ <<ui.calls[1].timestamp, ui.calls[2].timestamp, ui.calls[3].timestamp>> = <<10, 5, 0>>
    /\ <<ui.calls[1].character, ui.calls[2].character, ui.calls[3].character>>
          = <<"CharacterA", "CharacterB", "CharacterA">>
    /\ store.dps_data["CharacterA"].total_damage = 300
    /\ store.dps_data["CharacterA"].damage_by_type["Fire"] = 150
    /\ store.dps_data["CharacterA"].first_timestamp = 0
    /\ store.last_damage_timestamp = Some(10)


(***************************************************************************)
(* C27                                                                     *)
(***************************************************************************)
DrainedEvents(types) ==
    {i \in DOMAIN ui.drained : ui.drained[i].type \in types}

DrainedTargets(types) ==
    {ui.drained[i].args[1].target : i \in DrainedEvents(types)}

RECURSIVE StoredFor(_)
StoredFor(items) ==
    IF items = <<>> THEN 0
    ELSE (IF Head(items).type = "damage_dealt"
          THEN Cardinality(DOMAIN Head(items).args[1].damage_types)
          ELSE 0) + StoredFor(Tail(items))

AttackTypes == {"attack_hit", "attack_miss", "attack_hit_critical", "critical_hit"}

(* C27: one process_queue call fires on_dps_updated at most once, and      *)
(* exactly once when a damage event with an attacker was drained; it fires *)
(* on_target_selected, on_immunity_changed and on_damage_dealt at most     *)
(* once per distinct target, on_damage_dealt for every damaged target and  *)
(* on_target_selected for every attacked one; and each drained attack is   *)
(* stored as an attack and each drained damage event as one event per      *)
(* damage type.                                                            *)
C27_BatchedCallbacks ==
    ui.pc = "processed" =>
        /\ ui.calls.on_dps_updated <= 1
        /\ ui.calls.on_dps_updated = 1
              <=> \E i \in DrainedEvents({"damage_dealt"}) :
                     ui.drained[i].args[1].attacker # ""
        /\ \A cb \in {"on_target_selected", "on_immunity_changed", "on_damage_dealt"} :
              \A t \in DOMAIN ui.calls[cb] : ui.calls[cb][t] = 1
        /\ DOMAIN ui.calls.on_damage_dealt = DrainedTargets({"damage_dealt"})
        /\ DrainedTargets(AttackTypes) \subseteq DOMAIN ui.calls.on_target_selected
        /\ DOMAIN ui.calls.on_target_selected
              \subseteq DrainedTargets(AttackTypes \cup {"immunity"})
        /\ DOMAIN ui.calls.on_immunity_changed \subseteq DrainedTargets({"damage_dealt"})
        /\ ui.after.attacks = ui.before.attacks
                                 + Cardinality(DrainedEvents(AttackTypes))
        /\ ui.after.events = ui.before.events + StoredFor(ui.drained)

(* C27 as stated: on_dps_updated is invoked exactly once if any damage     *)
(* event was processed.                                                    *)
C27_AsWritten ==
    ui.pc = "processed" /\ DrainedEvents({"damage_dealt"}) # {}
        => ui.calls.on_dps_updated = 1

(* C27: process_queue leaves the queue empty, whatever was on it *)
C27_DrainsWholeQueue ==
    [][ui' # ui => data_queue' = <<>> /\ ui'.drained = data_queue]_vars

(* C27: a call drained two damage events on one target and an attack.      *)
C27_Witness ==
    /\ ui.pc = "processed"
    /\ \E i, j \in DrainedEvents({"damage_dealt"}) :
          i # j /\ ui.drained[i].args[1].target = ui.drained[j].args[1].target
    /\ DrainedEvents(AttackTypes) # {}
    /\ ui.calls.on_dps_updated = 1
    /\ ui.after.events > ui.before.events


(***************************************************************************)
(* C28                                                                     *)
(***************************************************************************)
IsPrefix(s, t) == Len(s) <= Len(t) /\ SubSeq(t, 1, Len(s)) = s

(* Every event, attack, aggregate and immunity record of st0 is in st1 *)
NothingRemoved(st0, st1) ==
    /\ IsPrefix(st0.events, st1.events)
    /\ IsPrefix(st0.attacks, st1.attacks)
    /\ DOMAIN st0.dps_data \subseteq DOMAIN st1.dps_data
    /\ \A c \in DOMAIN st0.dps_data :
          /\ st1.dps_data[c].total_damage >= st0.dps_data[c].total_damage
          /\ DOMAIN st0.dps_data[c].damage_by_type
                \subseteq DOMAIN st1.dps_data[c].damage_by_type
    /\ DOMAIN st0.immunity_data \subseteq DOMAIN st1.immunity_data
    /\ \A t \in DOMAIN st0.immunity_data :
          /\ DOMAIN st0.immunity_data[t] \subseteq DOMAIN st1.immunity_data[t]
          /\ \A d \in DOMAIN st0.immunity_data[t] :
                st1.immunity_data[t][d].sample_count
                   >= st0.immunity_data[t][d].sample_count
    /\ st0.last_damage_timestamp # None => st1.last_damage_timestamp # None

(* C28: clear_all_data leaves no event, no attack, no DPS aggregate and no *)
(* immunity record and resets the last-damage timestamp; after any other   *)
(* public DataStore operation everything the store held is still there.    *)
C28_OnlyClearDestroys ==
    /\ ui.op = "clear_all_data" =>
          /\ store.events = <<>>
          /\ store.attacks = <<>>
          /\ DOMAIN store.dps_data = {}
          /\ DOMAIN store.immunity_data = {}
          /\ store.last_damage_timestamp = None
    /\ ui.op # "clear_all_data" => NothingRemoved(ui.before, store)

(* C28: clear_all_data was called on a store that held an event, an        *)
(* attack, an aggregate and an immunity record.                            *)
C28_Witness ==
    /\ ui.op = "clear_all_data"
    /\ ui.before.events # <<>>
    /\ ui.before.attacks # <<>>
    /\ DOMAIN ui.before.dps_data # {}
    /\ DOMAIN ui.before.immunity_data # {}
    /\ ui.before.last_damage_timestamp # None


(***************************************************************************)
(* C29                                                                     *)
(***************************************************************************)
(* The lines of the file the last call read: all of them, or those up to   *)
(* the bound; none when the file could not be opened.                      *)
ReadLines ==
    IF ~ui.success THEN {}
    ELSE {k \in DOMAIN ImportedFile : ui.max_line = None \/ k <= Val(ui.max_line)}

ReadOfKind(kind) == {k \in ReadLines : ImportedFile[k].kind = kind}

TotalDamageOf(st, character) ==
    IF character \in DOMAIN st.dps_data THEN st.dps_data[character].total_damage ELSE 0

(* C29: after parse_and_import_file every event and attack the store held  *)
(* is still there, in place, followed by those of the file; every DPS      *)
(* aggregate is there with the file's damage added to its total; every     *)
(* immunity record is there with its sample count and maximum damage not   *)
(* lowered.                                                                *)
C29_KeepsExistingData ==
    ui.pc = "imported" =>
        /\ NothingRemoved(ui.before, store)
        /\ Len(NewAttacks) = Cardinality(ReadOfKind("attack"))
        /\ Len(NewEvents) = 2 * Cardinality(ReadOfKind("damage"))
        /\ TotalDamageOf(store, "Woo")
              = TotalDamageOf(ui.before, "Woo") + 50 * Cardinality(ReadOfKind("damage"))
        /\ \A t \in DOMAIN ui.before.immunity_data :
              \A d \in DOMAIN ui.before.immunity_data[t] :
                 store.immunity_data[t][d].max_damage
                    >= ui.before.immunity_data[t][d].max_damage

(* C29: a file with an attack, a damage line and an immunity line was      *)
(* imported into a store that held an attack, events, an aggregate and an  *)
(* immunity record, and all of it grew.                                    *)
C29_Witness ==
    /\ ui.pc = "imported" /\ ui.success
    /\ ui.before.attacks # <<>> /\ ui.before.events # <<>>
    /\ DOMAIN ui.before.dps_data # {} /\ DOMAIN ui.before.immunity_data # {}
    /\ NewAttacks # <<>> /\ NewEvents # <<>>
    /\ TotalDamageOf(store, "Woo") > TotalDamageOf(ui.before, "Woo")
    /\ DOMAIN store.immunity_data # DOMAIN ui.before.immunity_data


(***************************************************************************)
(* C30                                                                     *)
(***************************************************************************)
(* How often bonus was given to record_bonus *)
TimesObserved(bonus) ==
    Cardinality({i \in DOMAIN ui.calls : ui.calls[i] = bonus})

MostObserved ==
    {b \in BonusValues :
        TimesObserved(b) > 0 /\ \A c \in BonusValues : TimesObserved(c) <= TimesObserved(b)}

(* C30: after any sequence of record_bonus calls the estimate of the       *)
(* tracker is a bonus observed most often, and the highest of the bonuses  *)
(* observed that often.                                                    *)
C30_MostFrequentTiesHigh ==
    ui.calls # <<>> =>
        /\ "Goblin" \in DOMAIN parser.target_attack_bonus
        /\ parser.target_attack_bonus["Goblin"].max_bonus # None
        /\ Val(parser.target_attack_bonus["Goblin"].max_bonus) \in MostObserved
        /\ \A b \in MostObserved : b <= Val(parser.target_attack_bonus["Goblin"].max_bonus)

(* C30: two bonuses were seen twice and the highest bonus once: the        *)
(* estimate is the higher of the two seen twice, not the highest seen.     *)
C30_Witness ==
    /\ TimesObserved(5) = 2 /\ TimesObserved(-2) = 2 /\ TimesObserved(8) = 1
    /\ parser.target_attack_bonus["Goblin"].max_bonus = Some(5)


(***************************************************************************)
(* C31                                                                     *)
(***************************************************************************)
(* The arguments of the last calculate_immunity_percentage call *)
CalledMaxDamage ==
    IF ui.called_with = "before" THEN ui.dmg_before_immunity
    ELSE ui.dmg_before_immunity - ui.dmg_reduced

(* The percentages that reproduce dmg_reduced under compute_dmg_reduced,   *)
(* whatever the rounding, for the damage reverse_immunity solves for.      *)
Reproducing(max_damage, max_absorbed) ==
    {i \in 0..100 : max_absorbed \in compute_dmg_reduced(max_damage + max_absorbed, i)}

(* C31: calculate_immunity_percentage returns no estimate when max_damage  *)
(* <= 0, 0 when max_absorbed <= 0, and otherwise an integer percentage     *)
(* between 0 and 100 that reproduces the absorbed amount under             *)
(* compute_dmg_reduced and is the smallest percentage that does.           *)
C31_MinimumMatching ==
    ui.pc = "calculated" =>
        IF CalledMaxDamage <= 0 THEN ui.result = None
        ELSE IF ui.dmg_reduced <= 0 THEN ui.result = Some(0)
        ELSE /\ ui.result # None
             /\ Val(ui.result) \in Reproducing(CalledMaxDamage, ui.dmg_reduced)
             /\ \A i \in Reproducing(CalledMaxDamage, ui.dmg_reduced) :
                   Val(ui.result) <= i


(***************************************************************************)
(* C32                                                                     *)
(***************************************************************************)
(* The lines the last call read, and those of them a grammar matched *)
LinesRead == SubSeq(ImportedFile, 1, ui.lines_processed)

IsMatched(line) == parse_line(ui.parser_before, line).result # NoEvent

MatchedLinesRead == SelectSeq(LinesRead, IsMatched)

(* C32: a line that matches no grammar parses to no event and leaves the   *)
(* parser's estimators as they are; a file is ingested as if its unmatched *)
(* lines were not there, so the store and the estimators after the call    *)
(* are those the matched lines alone give, every line is counted, and the  *)
(* call succeeds.                                                          *)
C32_UnmatchedLinesIgnored ==
    /\ \A line \in {OtherLine, BlankLine} :
          parse_line(parser, line) = [parser |-> parser, result |-> NoEvent]
    /\ (ui.pc = "imported" /\ ui.opens) =>
          LET r == ImportLines(ui.parser_before, ui.before, MatchedLinesRead,
                               0, None, EmptyDict)
          IN /\ ui.success
             /\ ui.lines_processed = Len(ImportedFile)
             /\ store = r.store
             /\ parser = r.parser
             /\ MatchedLinesRead = <<>> => store = ui.before /\ parser = ui.parser_before

(* C32: a file whose first line is a blank line, whose second is other     *)
(* text and whose third is an attack line was ingested, and the attack is  *)
(* in the store.                                                           *)
C32_Witness ==
    /\ ui.pc = "imported" /\ ui.success
    /\ Len(ImportedFile) = 3
    /\ ImportedFile[1] = BlankLine /\ ImportedFile[2] = OtherLine
    /\ ImportedFile[3].kind = "attack"
    /\ Len(store.attacks) = Len(ui.before.attacks) + 1
    /\ store.attacks[Len(store.attacks)].roll = 13


(***************************************************************************)
(* C33                                                                     *)
(***************************************************************************)
(* The forms of get_ac_estimate other than the approximate one *)
ExactForms(ac) ==
    {"-"}
      \cup (IF ac.max_miss # None THEN {">" \o ToString(Val(ac.max_miss))} ELSE {})
      \cup (IF ac.hits # <<>>
            THEN {at_most_sign \o ToString(SeqMin(ac.hits)), ToString(SeqMin(ac.hits))}
            ELSE {})
      \cup (IF ac.max_miss # None /\ ac.hits # <<>>
            THEN {ToString(Val(ac.max_miss) + 1) \o "-" \o ToString(SeqMin(ac.hits))}
            ELSE {})

(* C33: whatever record_hit and record_miss calls a tracker has received,  *)
(* its maximum miss is below its minimum retained hit, so get_ac_estimate  *)
(* returns one of the exact forms and never "~" followed by the minimum    *)
(* hit.                                                                    *)
C33_ApproximateFormUnreachable ==
    \A t \in DOMAIN parser.target_ac :
        LET ac == parser.target_ac[t]
        IN /\ (ac.max_miss # None /\ ac.hits # <<>>) => Val(ac.max_miss) < SeqMin(ac.hits)
           /\ get_ac_estimate(ac) \in ExactForms(ac)
           /\ ac.hits # <<>> => get_ac_estimate(ac) # "~" \o ToString(SeqMin(ac.hits))

(* C33: a miss above every retained hit has emptied a tracker, which then  *)
(* estimates from the miss alone.                                          *)
C33_Witness ==
    \E t \in pruned :
        /\ parser.target_ac[t].hits = <<>>
        /\ parser.target_ac[t].max_miss # None
        /\ get_ac_estimate(parser.target_ac[t])
              = ">" \o ToString(Val(parser.target_ac[t].max_miss))


(***************************************************************************)
(* C34                                                                     *)
(***************************************************************************)
(* The totals of the returned calls with the given outcome *)
ReturnedTotals(outcome) ==
    {Val(ui.returned[i].total) :
        i \in {j \in DOMAIN ui.returned : ui.returned[j].outcome = outcome}}

AllReturned == \A th \in RaceThreads : workers[th].pc = "idle"

(* C34: with the poll loop and the background worker in parse_line at the  *)
(* same time, no tracker is created twice for one name, every retained hit *)
(* of the tracker is above its maximum miss, and no update is lost: once   *)
(* the calls have returned, the maximum miss is the highest miss total     *)
(* given and every hit total given above it is retained.                   *)
C34_RegistriesStayConsistent ==
    /\ ui.created <= 1
    /\ AllReturned => C1_HitsAboveMaxMiss
    /\ (AllReturned /\ ui.returned # <<>>) =>
          LET ac == parser.target_ac[RaceTarget]
          IN /\ ReturnedTotals("miss") # {} => ac.max_miss # None
             /\ \A h \in ReturnedTotals("hit") :
                   (ac.max_miss = None \/ h > Val(ac.max_miss))
                      => \E i \in DOMAIN ac.hits : ac.hits[i] = h


(***************************************************************************)
(* Properties of the retained session-only snapshot                        *)
(***************************************************************************)
(* C35: the retained session-only snapshot is isolated from the live       *)
(* store: whatever is ingested after restore_session_state, the dict in    *)
(* session_only_state keeps the contents save_session_state copied, so a   *)
(* second include-past-logs and restore cycle returns them again.          *)
C35_SnapshotIsolated ==
    service.session_only_state # None
        => service.session_only_state = service.state_when_saved


(* C36: when bulk ingestion was started with nothing in the store and the  *)
(* registries and has completed, turning the switch off leaves the store   *)
(* and the registries empty again and the past-logs-included flag cleared. *)
C36_EmptySessionRestored ==
    (ui.debug = "Session-only view restored" /\ ui.at_start = Some(NoContents))
        => /\ SessionContents(store, parser) = NoContents
           /\ ~service.past_logs_included


(* Whether the step records queued immunity q of target and damage_type. *)
RecordedNow(q, target, damage_type) ==
    \E i \in DOMAIN NewlyRecorded :
        /\ NewlyRecorded[i].path = "queued"
        /\ NewlyRecorded[i].target = target
        /\ NewlyRecorded[i].damage_type = damage_type
        /\ NewlyRecorded[i].immunity = q.immunity
        /\ NewlyRecorded[i].immunity_timestamp = q.timestamp

(* Whether the step runs cleanup_stale_immunities at a time at which q is  *)
(* more than max_age_seconds old.                                          *)
RemovedAsStale(q) ==
    /\ queue_processor'.parsed_event_count % 100 = 0
    /\ \E idle \in Idle : (game.clock + idle) - q.timestamp > max_age_seconds

(* C37: a queued immunity entry leaves the pending queue only by being     *)
(* recorded or by being removed as stale by cleanup_stale_immunities: a    *)
(* damage event of its type more than one second away does not discard it  *)
(* unrecorded.                                                             *)
C37_LeavesOnlyRecordedOrStale ==
    [][\A target \in DOMAIN queue_processor.pending_immunity_queue :
         \A damage_type \in DOMAIN queue_processor.pending_immunity_queue[target] :
            \A i \in DOMAIN Pending(queue_processor, target, damage_type) :
               LET q == Pending(queue_processor, target, damage_type)[i]
                   left == Pending(queue_processor', target, damage_type)
               IN \/ \E j \in DOMAIN left : left[j] = q
                  \/ RecordedNow(q, target, damage_type)
                  \/ RemovedAsStale(q)
      ]_vars


(***************************************************************************)
(* Properties of the tail reader after a clear                             *)
(***************************************************************************)
(* The file the monitor has selected, when it is still the active one. *)
SelectedFile == dir.files[Val(monitor.current_log_file)]

(* A poll that reads the selected file, which the game has cleared since   *)
(* the last poll and which is still the active one.                        *)
PollsRewritten ==
    /\ tail.since_poll = "cleared"
    /\ tail'.since_poll = "nothing"
    /\ monitor.current_log_file # None
    /\ find_active_log_file(dir) = monitor.current_log_file

(* C38: when the active file was cleared and rewritten between two polls,  *)
(* the next poll gives every line of the rewritten file to the parser,     *)
(* whole and in order, whatever the new size is next to the last-seen      *)
(* offset.                                                                 *)
C38_RewrittenFileForwarded ==
    [][PollsRewritten
         => read_new_lines(monitor, parser, dir, "none").new_lines
               = WholeLines(SelectedFile.content, 1)]_vars


(***************************************************************************)
(* Properties of the Reset Data button                                     *)
(***************************************************************************)
(* The correlations recorded since the last reset. *)
RecordedSinceReset ==
    SubSeq(queue_processor.recorded, Len(Val(ui.at_reset).recorded) + 1,
           Len(queue_processor.recorded))

(* C39: after reset_data no observation from before the reset is used for  *)
(* correlation: no correlation recorded since the reset uses the damage    *)
(* event the processor had buffered at the reset or an immunity it had     *)
(* queued at the reset, so an immunity line that arrives before any new    *)
(* damage line creates no immunity record.                                 *)
C39_NoPreResetCorrelation ==
    ui.at_reset # None =>
        \A i \in DOMAIN RecordedSinceReset :
            LET c == RecordedSinceReset[i]
                old == Val(ui.at_reset)
                queued == Pending(old, c.target, c.damage_type)
            IN /\ ~(/\ c.target \in DOMAIN old.damage_buffer
                    /\ old.damage_buffer[c.target].timestamp = c.damage_timestamp)
               /\ \A j \in DOMAIN queued : queued[j].timestamp # c.immunity_timestamp


(***************************************************************************)
(* Properties of the clean-up of the pending immunity queue                *)
(***************************************************************************)
(* C40: the pending immunity queue stays bounded: a queued entry that is   *)
(* more than 5 seconds old is removed within the next 100 events that      *)
(* process_queue processes, whatever the sizes of the batches.             *)
C40_StaleRemovedWithinHundred ==
    ui.processed >= 100 => ~HoldsStale(queue_processor, game.clock)

====
